---- MODULE Spec2Model ----
(***************************************************************************)
(* Verification model of the stem descriptor tooling.                      *)
(*                                                                         *)
(* Part 1: the Ed25519 certificate parser and validator                    *)
(*         (stem.descriptor.certificate), driven by the inputs the unit    *)
(*         tests in test/unit/descriptor/certificate.py build.             *)
(* Part 2: the keyword-line document assembler, driven by the documents    *)
(*         test/mocking.py builds.                                         *)
(* Part 3: the tooling around it: stem.connection.authenticate, the         *)
(*         interpretor's arguments.parse, test.util.run_tasks and          *)
(*         stem.manual.                                                    *)
(*                                                                         *)
(* Bytes are naturals 0..255, byte strings are sequences of bytes.  Base64 *)
(* text is a sequence of character codes: 0..63 is the index of a          *)
(* character in the base64 alphabet, PAD is '=', and JUNK is any character *)
(* outside the alphabet.                                                   *)
(***************************************************************************)
EXTENDS Integers, Sequences, FiniteSets, TLC

VARIABLES
  pc,          \* "built" -> "parsed" -> "opened" -> "validated"
  built,       \* how the test built the text: certificate()'s arguments
  content,     \* the base64 text handed to Ed25519Certificate.parse
  result,      \* outcome of Ed25519Certificate.parse
  target,      \* the descriptor handed to Certificate.validate, and the runtime
  validation,  \* outcome of Certificate.validate
  document,    \* a document as test/mocking.py built it: dialect and text lines
  assembled,   \* outcome of parsing it, strictly and permissively
  reader,      \* a streaming reader: its stream, its cursor, what it yielded
  auth,        \* stem.connection.authenticate: what tor advertises, the mocks, the outcome
  interp,      \* stem.interpretor.arguments.parse: argv and the outcome
  tasks,       \* test.util.run_tasks: the tasks, the one to run next, the process
  manual       \* stem.manual: a download of the man page, or its content and categories

vars ==
  <<pc, built, content, result, target, validation, document, assembled, reader,
    auth, interp, tasks, manual>>

\* the state of the descriptor tooling (parts 1 and 2)
descriptorVars == <<built, content, result, target, validation, document, assembled, reader>>

\* the state of the tooling of part 3
toolVars == <<auth, interp, tasks, manual>>

\* a part of the state a specification does not use
Unused == [used |-> FALSE]

NoTools == auth = Unused /\ interp = Unused /\ tasks = Unused /\ manual = Unused

(***************************************************************************)
(* Byte string helpers (python slicing and str_tools._to_int).             *)
(***************************************************************************)
Min(a, b) == IF a < b THEN a ELSE b

Max(a, b) == IF a > b THEN a ELSE b

\* b * n
Repeat(b, n) == [i \in 1..n |-> b]

\* s[from:to] with python's clamping, 0-based, to exclusive
Slice(s, from, to) ==
  LET lo == Min(from, Len(s))
      hi == Min(to, Len(s))
  IN  IF hi <= lo THEN <<>> ELSE [i \in 1..(hi - lo) |-> s[lo + i]]

\* s[from:]
SliceFrom(s, from) == Slice(s, from, Len(s))

\* s[from:-n]
SliceButLast(s, from, n) == Slice(s, from, Max(Len(s) - n, 0))

\* s[-n:]
Last(s, n) == Slice(s, Max(Len(s) - n, 0), Len(s))

RECURSIVE Join(_)
\* b''.join(chunks)
Join(chunks) == IF chunks = <<>> THEN <<>> ELSE Head(chunks) \o Join(Tail(chunks))

RECURSIVE _to_int(_)
\* big-endian unsigned integer of a byte string
_to_int(bytes) ==
  IF bytes = <<>> THEN 0
  ELSE 256 * _to_int(SubSeq(bytes, 1, Len(bytes) - 1)) + bytes[Len(bytes)]

(***************************************************************************)
(* Base64.                                                                 *)
(***************************************************************************)
PAD == 64

JUNK == 65

\* base64.b64encode: three bytes become four characters, the tail is padded
b64encode(bytes) ==
  LET n == Len(bytes)
      at(k) == IF k <= n THEN bytes[k] ELSE 0
      sym(i) ==
        LET g == (i - 1) \div 4
            p == (i - 1) % 4
            b0 == at(3 * g + 1)
            b1 == at(3 * g + 2)
            b2 == at(3 * g + 3)
        IN  CASE p = 0 -> b0 \div 4
              [] p = 1 -> (b0 % 4) * 16 + (b1 \div 16)
              [] p = 2 -> IF 3 * g + 2 > n THEN PAD ELSE (b1 % 16) * 4 + (b2 \div 64)
              [] p = 3 -> IF 3 * g + 3 > n THEN PAD ELSE b2 % 64
  IN  [i \in 1..(4 * ((n + 2) \div 3)) |-> sym(i)]

RECURSIVE TrailingPads(_)
TrailingPads(text) ==
  IF text # <<>> /\ text[Len(text)] = PAD
  THEN 1 + TrailingPads(SubSeq(text, 1, Len(text) - 1))
  ELSE 0

\* base64.b64decode (non-validating): characters outside the alphabet are
\* discarded; a final group of 2 or 3 characters needs its padding and a final
\* group of 1 character is never decodable.  Padding is only modelled at the
\* end of the text.
b64decode(text) ==
  LET t    == SelectSeq(text, LAMBDA c : c <= PAD)
      pads == TrailingPads(t)
      n    == Len(t) - pads
      tail == n % 4
      ok   == \/ tail = 0
              \/ tail = 2 /\ pads >= 2
              \/ tail = 3 /\ pads >= 1
      nb   == 3 * (n \div 4) + (IF tail = 0 THEN 0 ELSE tail - 1)
      s(k) == IF k <= n THEN t[k] ELSE 0
      byte(j) ==
        LET g == (j - 1) \div 3
            q == (j - 1) % 3
            s0 == s(4 * g + 1)
            s1 == s(4 * g + 2)
            s2 == s(4 * g + 3)
            s3 == s(4 * g + 4)
        IN  CASE q = 0 -> s0 * 4 + (s1 \div 16)
              [] q = 1 -> (s1 % 16) * 16 + (s2 \div 4)
              [] q = 2 -> (s2 % 4) * 64 + s3
  IN  IF ok
      THEN [ok |-> TRUE, cause |-> "", bytes |-> [j \in 1..nb |-> byte(j)]]
      ELSE [ok |-> FALSE, cause |-> "Incorrect padding", bytes |-> <<>>]

(***************************************************************************)
(* The certificates the unit tests build.                                  *)
(***************************************************************************)
ED25519_HEADER_LENGTH == 40

ED25519_SIGNATURE_LENGTH == 64

HAS_SIGNING_KEY == 4

\* certificate(version, cert_type, extension_data) before its base64 encoding
certificate_short_signature(version, cert_type, extension_data) ==
  <<version, cert_type>> \o Repeat(0, 4) \o <<1>> \o Repeat(3, 32)
    \o <<Len(extension_data)>> \o Join(extension_data)
    \o Repeat(1, ED25519_SIGNATURE_LENGTH - 1)

certificate_without_key_type(version, cert_type, extension_data) ==
  <<version, cert_type>> \o Repeat(0, 4) \o Repeat(3, 32)
    \o <<Len(extension_data)>> \o Join(extension_data)
    \o Repeat(1, ED25519_SIGNATURE_LENGTH)

certificate_count_from_zero(version, cert_type, extension_data) ==
  <<version, cert_type>> \o Repeat(0, 4) \o <<1>> \o Repeat(3, 32)
    \o <<Max(Len(extension_data) - 1, 0)>> \o Join(extension_data)
    \o Repeat(1, ED25519_SIGNATURE_LENGTH)

certificate_expiring_later(version, cert_type, extension_data) ==
  <<version, cert_type>> \o <<0, 0, 0, 1>> \o <<1>> \o Repeat(3, 32)
    \o <<Len(extension_data)>> \o Join(extension_data)
    \o Repeat(1, ED25519_SIGNATURE_LENGTH)

certificate_type_before_version(version, cert_type, extension_data) ==
  <<cert_type, version>> \o Repeat(0, 4) \o <<1>> \o Repeat(3, 32)
    \o <<Len(extension_data)>> \o Join(extension_data)
    \o Repeat(1, ED25519_SIGNATURE_LENGTH)

certificate_bytes(version, cert_type, extension_data) ==
  <<version, cert_type>>                 \* version, certificate type
    \o Repeat(0, 4)                      \* expiration date, the epoch
    \o <<1>>                             \* key type
    \o Repeat(3, 32)                     \* key
    \o <<Len(extension_data)>>           \* extension count
    \o Join(extension_data)
    \o Repeat(1, ED25519_SIGNATURE_LENGTH)

certificate(version, cert_type, extension_data) ==
  b64encode(certificate_bytes(version, cert_type, extension_data))

\* an encoded extension: a header declaring `declared` bytes of data, followed
\* by `supplied` bytes of data
Extension_flags_before_type(declared, type, flags, supplied) ==
  <<declared \div 256, declared % 256, flags, type>> \o Repeat(17, supplied)

Extension(declared, type, flags, supplied) ==
  <<declared \div 256, declared % 256, type, flags>> \o Repeat(17, supplied)

\* the extensions of test_basic_parsing
BASIC_SIGNING_KEY_EXTENSION == <<0, 32, 4, 7>> \o Repeat(17, 32)

BASIC_UNKNOWN_EXTENSION == <<0, 0, 5, 4>>

\* the extensions of test_truncated_extension
MISSING_HEADER_EXTENSION == <<>>

TRUNCATED_EXTENSION == <<80, 0, 0, 0, 21, 18>>

\* the extension of test_extra_extension_data
EXTRA_DATA_EXTENSION == <<0, 1, 0, 0, 21, 18>>

\* the extension of test_truncated_signing_key
TRUNCATED_SIGNING_KEY_EXTENSION == <<0, 2, 4, 7, 9, 10>>

\* 'AQQABhtZAaW2GoBED1IjY3A6' of test_too_short, 18 bytes once decoded
TOO_SHORT_CONTENT ==
  <<0, 16, 16, 0, 1, 33, 45, 25, 0, 26, 22, 54, 6, 40, 1, 4, 3, 53, 8, 35, 24, 55, 0, 58>>

\* ED25519_CERT of test_with_real_cert, the line breaks included
ED25519_CERT ==
  <<0, 16, 16, 0, 1, 33, 45, 25, 0, 26, 22, 54, 6, 40, 1, 4, 3, 53, 8, 35, 24, 55, 0, 58, 31,
    58, 6, 13, 42, 1, 4, 37, 57, 0, 60, 55, 31, 3, 54, 25, 26, 61, 46, 41, 6, 36, 30, 57, 53,
    9, 6, 42, 0, 16, 0, 32, 1, 0, 1, 39, 41, 43, 21, 17, JUNK, 41, 45, 8, 43, 56, 55, 27, 22,
    15, 40, 54, 31, 8, 51, 40, 55, 46, 14, 50, 48, 31, 40, 12, 43, 43, 50, 41, 43, 41, 27, 38,
    56, 7, 33, 2, 36, 25, 12, 26, 14, 52, 58, 56, 11, 15, 62, 53, 10, 13, 46, 11, 47, 37, 28,
    60, 44, 6, 6, 60, 37, 19, 35, 49, 53, JUNK, 32, 56, 36, 55, 4, 11, 46, 22, 24, 32, 7, 24,
    22, 20, 57, 43, 0, 34, 26, 59, 39, 37, 56, 32, 20, 31, 1, 25, 14, 4, 31, 7, 0, 31, 10, 4,
    18, 59, 37, 55, 29, 58, 55, 29, 1, 4, 35, 4, 23, 61, 60, 11, 35, 33, 29, 41, 54, 48, 56,
    PAD>>

\* '\x02\x0323\x04' of test_non_base64
NON_BASE64_CONTENT == <<JUNK, JUNK, 54, 55, JUNK>>

(***************************************************************************)
(* Ed25519Certificate.parse                                                *)
(***************************************************************************)
Error(msg, args) == [msg |-> msg, args |-> args]

NoError == Error("", <<>>)

Base64Error(cause) ==
  Error("Ed25519 certificate wasn't propoerly base64 encoded (" \o cause \o "):", <<>>)

TooShortError(size) ==
  Error("Ed25519 certificate was %i bytes, but should be at least %i",
        <<size, ED25519_HEADER_LENGTH + ED25519_SIGNATURE_LENGTH>>)

VersionError(version) ==
  Error("Ed25519 certificate is version %i. Parser presently only supports version 1.",
        <<version>>)

CertTypeError(cert_type) ==
  IF cert_type = 7
  THEN Error("Ed25519 certificate cannot have a type of 7. This is reserved for RSA identity cross-certification.", <<>>)
  ELSE Error("Ed25519 certificate cannot have a type of %i. This is reserved to avoid conflicts with tor CERTS cells.", <<cert_type>>)

MissingHeaderError == Error("Ed25519 extension is missing header field data", <<>>)

TruncatedError(declared, available) ==
  Error("Ed25519 extension is truncated. It should have %i bytes of data but there's only %i.",
        <<declared, available>>)

SigningKeySizeError(size) ==
  Error("Ed25519 HAS_SIGNING_KEY extension must be 32 bytes, but was %i.", <<size>>)

UnusedDataError(size) ==
  Error("Ed25519 certificate had %i bytes of unused extension data", <<size>>)

\* the flag bitfield of an extension: bit 0 is AFFECTS_VALIDATION, any other
\* bit is reported once as UNKNOWN
ExtensionFlags(flag_int) ==
  (IF flag_int % 2 = 1 THEN <<"AFFECTS_VALIDATION">> ELSE <<>>)
    \o (IF flag_int \div 2 # 0 THEN <<"UNKNOWN">> ELSE <<>>)

Ed25519Extension(type, flags, flag_int, data) ==
  [type |-> type, flags |-> flags, flag_int |-> flag_int, data |-> data]

RECURSIVE ParseExtensions(_, _, _)
\* decodes `count` extensions from the front of remaining_data
ParseExtensions(remaining_data, count, extensions) ==
  IF count = 0
  THEN [error |-> NoError, extensions |-> extensions, remaining |-> remaining_data]
  ELSE
    IF Len(remaining_data) < 4
    THEN [error |-> MissingHeaderError, extensions |-> extensions, remaining |-> remaining_data]
    ELSE
      LET extension_length == _to_int(Slice(remaining_data, 0, 2))
          extension_type   == remaining_data[3]
          extension_flags  == remaining_data[4]
          extension_data   == Slice(remaining_data, 4, 4 + extension_length)
      IN  IF extension_length # Len(extension_data)
          THEN [error |-> TruncatedError(extension_length, Len(extension_data)),
                extensions |-> extensions, remaining |-> remaining_data]
          ELSE IF extension_type = HAS_SIGNING_KEY /\ Len(extension_data) # 32
          THEN [error |-> SigningKeySizeError(Len(extension_data)),
                extensions |-> extensions, remaining |-> remaining_data]
          ELSE ParseExtensions(
                 SliceFrom(remaining_data, 4 + extension_length), count - 1,
                 Append(extensions,
                        Ed25519Extension(extension_type, ExtensionFlags(extension_flags),
                                         extension_flags, extension_data)))

NoCertificate ==
  [version |-> 0, type |-> 0, expiration |-> 0, key_type |-> 0, key |-> <<>>,
   extensions |-> <<>>, signature |-> <<>>, encoded |-> <<>>]

Failure(error) == [ok |-> FALSE, error |-> error, cert |-> NoCertificate]

Ed25519Certificate_parse(text) ==
  LET b64     == b64decode(text)
      decoded == b64.bytes
      parsed  == ParseExtensions(
                   SliceButLast(decoded, ED25519_HEADER_LENGTH, ED25519_SIGNATURE_LENGTH),
                   decoded[40], <<>>)
  IN  IF ~b64.ok THEN Failure(Base64Error(b64.cause))
      ELSE IF decoded = <<>> THEN Failure(Base64Error("empty"))
      ELSE IF Len(decoded) < ED25519_HEADER_LENGTH + ED25519_SIGNATURE_LENGTH
      THEN Failure(TooShortError(Len(decoded)))
      ELSE IF decoded[1] # 1 THEN Failure(VersionError(decoded[1]))
      ELSE IF decoded[2] \in {0, 7} THEN Failure(CertTypeError(decoded[2]))
      ELSE IF parsed.error # NoError THEN Failure(parsed.error)
      ELSE IF parsed.remaining # <<>>
      THEN Failure(UnusedDataError(Len(parsed.remaining)))
      ELSE [ok |-> TRUE, error |-> NoError,
            cert |-> [version    |-> decoded[1],
                      type       |-> decoded[2],
                      expiration |-> _to_int(Slice(decoded, 2, 6)) * 3600,
                      key_type   |-> decoded[7],
                      key        |-> Slice(decoded, 7, 39),
                      extensions |-> parsed.extensions,
                      signature  |-> Last(decoded, ED25519_SIGNATURE_LENGTH),
                      encoded    |-> text]]

(***************************************************************************)
(* Certificate.validate                                                    *)
(***************************************************************************)
NoKey == <<>>

\* the data of the first HAS_SIGNING_KEY extension, if any
EmbeddedKey(cert) ==
  LET found == SelectSeq(cert.extensions, LAMBDA e : e.type = HAS_SIGNING_KEY)
  IN  IF found = <<>> THEN NoKey ELSE found[1].data

\* the key the signature is checked with
VerificationKey_embedded_first(cert, master_key) ==
  IF EmbeddedKey(cert) # NoKey THEN EmbeddedKey(cert)
  ELSE IF master_key # NoKey THEN master_key
  ELSE cert.key

VerificationKey(cert, master_key) ==
  IF master_key # NoKey THEN master_key
  ELSE IF EmbeddedKey(cert) # NoKey THEN EmbeddedKey(cert)
  ELSE cert.key

NotValidated == [outcome |-> "", key |-> NoKey]

\* descriptor: the target's master key (NoKey when it has none) and the set of
\* keys under which the Ed25519 primitive accepts the signature over the
\* descriptor's digest; nacl: whether the primitive is importable
validate_unchecked_without_nacl(cert, descriptor, nacl) ==
  IF ~nacl THEN [outcome |-> "ok", key |-> NoKey]
  ELSE LET key == VerificationKey(cert, descriptor.master_key)
       IN  IF key \in descriptor.accepted
           THEN [outcome |-> "ok", key |-> key]
           ELSE [outcome |-> "Ed25519KeyCertificate signing key is invalid (Signature was forged or corrupt)",
                 key |-> key]

validate(cert, descriptor, nacl) ==
  IF ~nacl THEN [outcome |-> "capability unavailable", key |-> NoKey]
  ELSE LET key == VerificationKey(cert, descriptor.master_key)
       IN  IF key \in descriptor.accepted
           THEN [outcome |-> "ok", key |-> key]
           ELSE [outcome |-> "Ed25519KeyCertificate signing key is invalid (Signature was forged or corrupt)",
                 key |-> key]

(***************************************************************************)
(* Descriptor content as test/mocking.py builds it.  A document is a       *)
(* sequence of text lines; a keyword line is its keyword and the tokens of *)
(* its argument, and the other lines are the BEGIN line, the base64 lines  *)
(* and the END line of an embedded block.                                  *)
(***************************************************************************)
KeywordLine(keyword, tokens) ==
  [kind |-> "line", keyword |-> keyword, args |-> tokens, tag |-> ""]

BeginLine(tag) == [kind |-> "begin", keyword |-> "", args |-> <<>>, tag |-> tag]

DataLine(text) == [kind |-> "data", keyword |-> "", args |-> text, tag |-> ""]

EndLine(tag) == [kind |-> "end", keyword |-> "", args |-> <<>>, tag |-> tag]

\* the values of a template or of attr: None, a text, or a text followed by
\* '\n-----BEGIN tag-----%s-----END tag-----' % CRYPTO_BLOB
None == [none |-> TRUE, args |-> <<>>, tag |-> ""]

Text(tokens) == [none |-> FALSE, args |-> tokens, tag |-> ""]

BlockText(tag) == [none |-> FALSE, args |-> <<>>, tag |-> tag]

\* 'MIGJ', the first four characters of the key
CRYPTO_BLOB == <<12, 8, 6, 9>>

ROUTER_STATUS_ENTRY_V3_HEADER ==
  << <<"r", Text(<<"caerSidi", "p1aag7VwarGxqctS7/fS0y5FU+s", "oQZFLYe9e4A7bOkWKR7TaNxb0JE",
                   "2012-08-06", "11:19:31", "71.35.150.29", "9001", "0">>)>>,
     <<"s", Text(<<"Fast", "Named", "Running", "Stable", "Valid">>)>> >>

KEY_CERTIFICATE_HEADER ==
  << <<"dir-key-certificate-version", Text(<<"3">>)>>,
     <<"fingerprint", Text(<<"27B6B5996C426270A5C95488AA5BCEB6BCC86956">>)>>,
     <<"dir-key-published", Text(<<"2011-11-28", "21:51:04">>)>>,
     <<"dir-key-expires", Text(<<"2012-11-28", "21:51:04">>)>>,
     <<"dir-identity-key", BlockText("RSA PUBLIC KEY")>>,
     <<"dir-signing-key", BlockText("RSA PUBLIC KEY")>> >>

KEY_CERTIFICATE_FOOTER ==
  << <<"dir-key-certification", BlockText("SIGNATURE")>> >>

\* keyword in attr
InAttr(attr, keyword) == \E i \in 1..Len(attr) : attr[i][1] = keyword

\* attr[keyword]
AttrValue(attr, keyword) ==
  attr[CHOOSE i \in 1..Len(attr) : attr[i][1] = keyword][2]

\* del attr[keyword]
DelAttr(attr, keyword) == SelectSeq(attr, LAMBDA entry : entry[1] # keyword)

Rendered_without_end(keyword, value) ==
  <<KeywordLine(keyword, value.args)>>
    \o (IF value.tag = "" THEN <<>> ELSE <<BeginLine(value.tag), DataLine(CRYPTO_BLOB)>>)

\* the lines '%s %s' % (keyword, value) is split into
Rendered(keyword, value) ==
  <<KeywordLine(keyword, value.args)>>
    \o (IF value.tag = "" THEN <<>>
        ELSE <<BeginLine(value.tag), DataLine(CRYPTO_BLOB), EndLine(value.tag)>>)

RECURSIVE FillTemplate(_, _, _, _)
\* the loop over one template: the lines it adds and what is left of attr
FillTemplate(template, attr, exclude, lines) ==
  IF template = <<>> THEN [lines |-> lines, attr |-> attr]
  ELSE
    LET keyword == template[1][1]
    IN  IF keyword \in exclude
        THEN FillTemplate(Tail(template), attr, exclude, lines)
        ELSE
          LET value == IF InAttr(attr, keyword) THEN AttrValue(attr, keyword)
                       ELSE template[1][2]
              left  == IF InAttr(attr, keyword) THEN DelAttr(attr, keyword) ELSE attr
          IN  IF value.none
              THEN FillTemplate(Tail(template), left, exclude, lines)
              ELSE FillTemplate(Tail(template), left, exclude,
                                lines \o Rendered(keyword, value))

RECURSIVE Remainder(_)
\* the unused attr entries, one line each
Remainder(attr) ==
  IF attr = <<>> THEN <<>>
  ELSE Rendered(attr[1][1], IF attr[1][2].none THEN Text(<<>>) ELSE attr[1][2])
         \o Remainder(Tail(attr))

_get_descriptor_content_drops_remainder(attr, exclude, header_template, footer_template) ==
  LET header == FillTemplate(header_template, attr, exclude, <<>>)
      footer == FillTemplate(footer_template, header.attr, exclude, <<>>)
  IN  header.lines \o footer.lines

_get_descriptor_content_ignores_exclude(attr, exclude, header_template, footer_template) ==
  LET header == FillTemplate(header_template, attr, {}, <<>>)
      footer == FillTemplate(footer_template, header.attr, {}, <<>>)
  IN  header.lines \o Remainder(footer.attr) \o footer.lines

_get_descriptor_content(attr, exclude, header_template, footer_template) ==
  LET header == FillTemplate(header_template, attr, exclude, <<>>)
      footer == FillTemplate(footer_template, header.attr, exclude, <<>>)
  IN  header.lines \o Remainder(footer.attr) \o footer.lines

get_router_status_entry_v3_without_flags(attr, exclude) ==
  _get_descriptor_content(attr, exclude, SubSeq(ROUTER_STATUS_ENTRY_V3_HEADER, 1, 1), <<>>)

get_router_status_entry_v3(attr, exclude) ==
  _get_descriptor_content(attr, exclude, ROUTER_STATUS_ENTRY_V3_HEADER, <<>>)

get_key_certificate(attr, exclude) ==
  _get_descriptor_content(attr, exclude, KEY_CERTIFICATE_HEADER, KEY_CERTIFICATE_FOOTER)

DOC_SIG ==
  [method |-> "sha1", identity |-> "14C131DFC5C6F93646BE72FA1401C02A8DF2E8B4",
   key_digest |-> "BF112F1C6D5543CFD0A32215ACABD4197B5279AD", signature |-> "SIGNATURE"]

AUTHORITY_HEADER ==
  << <<"dir-source", Text(<<"turtles", "27B6B5996C426270A5C95488AA5BCEB6BCC86956",
                            "no.place.com", "76.73.17.194", "9030", "9090">>)>>,
     <<"contact", Text(<<"Mike", "Perry", "<email>">>)>> >>

NETWORK_STATUS_DOCUMENT_HEADER ==
  << <<"network-status-version", Text(<<"3">>)>>,
     <<"vote-status", Text(<<"consensus">>)>>,
     <<"consensus-methods", None>>,
     <<"consensus-method", None>>,
     <<"published", None>>,
     <<"valid-after", Text(<<"2012-09-02", "22:00:00">>)>>,
     <<"fresh-until", Text(<<"2012-09-02", "22:00:00">>)>>,
     <<"valid-until", Text(<<"2012-09-02", "22:00:00">>)>>,
     <<"voting-delay", Text(<<"300", "300">>)>>,
     <<"client-versions", None>>,
     <<"server-versions", None>>,
     <<"package", None>>,
     <<"known-flags", Text(<<"Authority", "BadExit", "Exit", "Fast", "Guard", "HSDir", "Named",
                             "Running", "Stable", "Unnamed", "V2Dir", "Valid">>)>>,
     <<"params", None>> >>

\* the value of directory-signature: '%s %s\n%s' % (identity, key_digest, signature)
NETWORK_STATUS_DOCUMENT_FOOTER ==
  << <<"directory-footer", Text(<<>>)>>,
     <<"bandwidth-weights", None>>,
     <<"directory-signature",
       [none |-> FALSE, args |-> <<DOC_SIG.identity, DOC_SIG.key_digest>>,
        tag |-> DOC_SIG.signature]>> >>

\* get_directory_authority(attr, exclude, is_vote, content = True)
get_directory_authority_digest_in_votes(attr, exclude, is_vote) ==
  LET with_digest ==
        IF is_vote /\ ~(InAttr(attr, "vote-digest") \/ "vote-digest" \in exclude)
        THEN Append(attr, <<"vote-digest", Text(<<"0B6D1E9A300B895AA2D0B427F92917B6995C3C1C">>)>>)
        ELSE attr
      desc_content == _get_descriptor_content(with_digest, exclude, AUTHORITY_HEADER, <<>>)
  IN  IF is_vote THEN desc_content \o get_key_certificate(<<>>, {}) ELSE desc_content

get_directory_authority(attr, exclude, is_vote) ==
  LET with_digest ==
        \* entries from a consensus also have a mandatory 'vote-digest' field
        IF ~is_vote /\ ~(InAttr(attr, "vote-digest") \/ "vote-digest" \in exclude)
        THEN Append(attr, <<"vote-digest", Text(<<"0B6D1E9A300B895AA2D0B427F92917B6995C3C1C">>)>>)
        ELSE attr
      desc_content == _get_descriptor_content(with_digest, exclude, AUTHORITY_HEADER, <<>>)
  IN  IF is_vote THEN desc_content \o get_key_certificate(<<>>, {}) ELSE desc_content

\* attr.get('vote-status') == 'vote'
IsVoteAttr(attr) ==
  InAttr(attr, "vote-status") /\ AttrValue(attr, "vote-status") = Text(<<"vote">>)

\* the defaults only found in a vote, or only in a consensus
ExtraDefaults(attr) ==
  IF IsVoteAttr(attr)
  THEN << <<"consensus-methods", Text(<<"1", "9">>)>>,
          <<"published", Text(<<"2012-09-02", "22:00:00">>)>> >>
  ELSE << <<"consensus-method", Text(<<"9">>)>> >>

RECURSIVE WithDefaults(_, _, _)
\* attr once the defaults that are neither excluded nor given are added
WithDefaults(attr, exclude, defaults) ==
  IF defaults = <<>> THEN attr
  ELSE IF defaults[1][1] \in exclude \/ InAttr(attr, defaults[1][1])
  THEN WithDefaults(attr, exclude, Tail(defaults))
  ELSE WithDefaults(Append(attr, defaults[1]), exclude, Tail(defaults))

\* desc_content.find(b'\n' + keyword) + 1, in lines: the number of lines before
\* the first line of that keyword that is not the first line (0 when there is
\* none, as find gives -1)
FindLine(desc_content, keyword) ==
  LET found == {i \in 2..Len(desc_content) :
                  desc_content[i].kind = "line" /\ desc_content[i].keyword = keyword}
  IN  IF found = {} THEN 0 ELSE (CHOOSE i \in found : \A j \in found : i <= j) - 1

\* the place the authorities or the routers are injected at
FooterDiv(desc_content) ==
  IF "directory-footer" \in {desc_content[i].keyword : i \in 1..Len(desc_content)}
  THEN FindLine(desc_content, "directory-footer")
  ELSE IF "directory-signature" \in {desc_content[i].keyword : i \in 1..Len(desc_content)}
  THEN FindLine(desc_content, "directory-signature")
  ELSE Len(desc_content)

Inject_after_footer(desc_content, entries) == desc_content \o Join(entries)

\* desc_content[:footer_div] + '\n'.join(entries) + '\n' + desc_content[footer_div:]
Inject(desc_content, entries) ==
  IF entries = <<>> THEN desc_content
  ELSE SubSeq(desc_content, 1, FooterDiv(desc_content)) \o Join(entries)
         \o SubSeq(desc_content, FooterDiv(desc_content) + 1, Len(desc_content))

\* the authorities argument: None, or a list of directory authorities
NoAuthorities == [none |-> TRUE, entries |-> <<>>]

Authorities(entries) == [none |-> FALSE, entries |-> entries]

\* get_network_status_document_v3(attr, exclude, authorities, routers, content = True)
get_network_status_document_v3(attr, exclude, authorities, routers) ==
  LET given == IF IsVoteAttr(attr) /\ authorities.none
               \* votes need an authority to be valid
               THEN <<get_directory_authority(<<>>, {}, TRUE)>>
               ELSE authorities.entries
      desc_content ==
        _get_descriptor_content(WithDefaults(attr, exclude, ExtraDefaults(attr)), exclude,
                                NETWORK_STATUS_DOCUMENT_HEADER, NETWORK_STATUS_DOCUMENT_FOOTER)
  IN  Inject(Inject(desc_content, given), routers)

(***************************************************************************)
(* The keyword-line lexer.                                                 *)
(***************************************************************************)
NoBlock == [tag |-> "", bytes |-> <<>>]

DescriptorLine(keyword, args, block) ==
  [keyword |-> keyword, args |-> args, block |-> block]

\* the index of the first END line of `tag` at or after `from`, 0 if none
EndOfBlock(raw, tag, from) ==
  LET ends == {i \in from..Len(raw) : raw[i].kind = "end" /\ raw[i].tag = tag}
  IN  IF ends = {} THEN 0 ELSE CHOOSE i \in ends : \A j \in ends : i <= j

\* the bytes of the base64 lines from..to
BlockBytes(raw, from, to) ==
  b64decode(Join([i \in 1..(to - from + 1) |->
                    IF raw[from + i - 1].kind = "data" THEN raw[from + i - 1].args
                    ELSE <<JUNK>>])).bytes

RECURSIVE Lex(_, _)
\* the logical lines of a document, or failure on a block that is never closed
\* (or on a BEGIN, base64 or END line outside a block)
Lex(raw, lines) ==
  IF raw = <<>> THEN [ok |-> TRUE, lines |-> lines]
  ELSE IF raw[1].kind # "line" THEN [ok |-> FALSE, lines |-> lines]
  ELSE IF Len(raw) >= 2 /\ raw[2].kind = "begin"
  THEN LET closing == EndOfBlock(raw, raw[2].tag, 3)
       IN  IF closing = 0 THEN [ok |-> FALSE, lines |-> lines]
           ELSE Lex(SubSeq(raw, closing + 1, Len(raw)),
                    Append(lines,
                           DescriptorLine(raw[1].keyword, raw[1].args,
                                          [tag |-> raw[2].tag,
                                           bytes |-> BlockBytes(raw, 3, closing - 1)])))
  ELSE Lex(Tail(raw), Append(lines, DescriptorLine(raw[1].keyword, raw[1].args, NoBlock)))

(***************************************************************************)
(* The document schemas: keyword, cardinality, position, argument shape.   *)
(***************************************************************************)
Field(keyword, cardinality, position, shape) ==
  [keyword |-> keyword, cardinality |-> cardinality, position |-> position, shape |-> shape]

RouterStatusEntryV3Schema ==
  << Field("r", "exactly-one", "first", "router"),
     Field("s", "exactly-one", "any", "list"),
     Field("m", "zero-or-one", "any", "string"),
     Field("v", "zero-or-one", "any", "string"),
     Field("w", "zero-or-one", "any", "string"),
     Field("pr", "zero-or-one", "any", "list") >>

KeyCertificateSchema ==
  << Field("dir-key-certificate-version", "exactly-one", "first", "integer"),
     Field("fingerprint", "exactly-one", "any", "string"),
     Field("dir-key-published", "exactly-one", "any", "timestamp"),
     Field("dir-key-expires", "exactly-one", "any", "timestamp"),
     Field("dir-identity-key", "exactly-one", "any", "block"),
     Field("dir-signing-key", "exactly-one", "any", "block"),
     Field("dir-key-certification", "exactly-one", "last", "block"),
     Field("dir-address", "zero-or-one", "any", "string") >>

\* entries from a consensus also have a mandatory 'vote-digest' field, the
\* entries of a vote do not
DirectoryAuthoritySchema(is_vote) ==
  << Field("dir-source", "exactly-one", "first", "authority"),
     Field("contact", "exactly-one", "any", "string"),
     Field("vote-digest", IF is_vote THEN "zero-or-one" ELSE "exactly-one", "any", "string") >>

\* the header and the footer of a v3 network status document
NetworkStatusDocumentV3Schema(is_vote) ==
  << Field("network-status-version", "exactly-one", "first", "integer"),
     Field("vote-status", "exactly-one", "any", "string"),
     Field("consensus-methods", "zero-or-one", "any", "list"),
     Field("consensus-method", "zero-or-one", "any", "integer"),
     Field("published", IF is_vote THEN "exactly-one" ELSE "zero-or-one", "any", "timestamp"),
     Field("valid-after", "exactly-one", "any", "timestamp"),
     Field("fresh-until", "exactly-one", "any", "timestamp"),
     Field("valid-until", "exactly-one", "any", "timestamp"),
     Field("voting-delay", "exactly-one", "any", "list"),
     Field("client-versions", "zero-or-one", "any", "list"),
     Field("server-versions", "zero-or-one", "any", "list"),
     Field("package", "zero-or-more", "any", "list"),
     Field("known-flags", "exactly-one", "any", "list"),
     Field("params", "zero-or-one", "any", "list"),
     Field("directory-footer", "exactly-one", "any", "list"),
     Field("bandwidth-weights", "zero-or-one", "any", "list"),
     Field("directory-signature", "one-or-more", "any", "signature") >>

Dialects == {"router-status-entry-v3", "dir-key-certificate-3"}

Schema(dialect) ==
  CASE dialect = "router-status-entry-v3" -> RouterStatusEntryV3Schema
    [] dialect = "directory-authority-consensus" -> DirectoryAuthoritySchema(FALSE)
    [] dialect = "directory-authority-vote" -> DirectoryAuthoritySchema(TRUE)
    [] dialect = "network-status-consensus-3" -> NetworkStatusDocumentV3Schema(FALSE)
    [] dialect = "network-status-vote-3" -> NetworkStatusDocumentV3Schema(TRUE)
    [] OTHER -> KeyCertificateSchema

\* the tokens that convert to an integer, a date (days since the epoch), a time
\* of the day (seconds) or an IPv4 address
IntegerOf ==
  ("0" :> 0) @@ ("3" :> 3) @@ ("9" :> 9) @@ ("9001" :> 9001) @@ ("9030" :> 9030)
    @@ ("9090" :> 9090) @@ ("70000" :> 70000)

DateOf ==
  ("2012-08-06" :> 15558) @@ ("2011-11-28" :> 15306) @@ ("2012-11-28" :> 15672)
    @@ ("2012-09-02" :> 15585)

TimeOf == ("11:19:31" :> 40771) @@ ("21:51:04" :> 78664) @@ ("22:00:00" :> 79200)

Addresses == {"71.35.150.29", "76.73.17.194"}

\* a converted argument
Value(ints, strs, bytes) == [set |-> TRUE, ints |-> ints, strs |-> strs, bytes |-> bytes]

Unset == [set |-> FALSE, ints |-> <<>>, strs |-> <<>>, bytes |-> <<>>]

IsTimestamp(date, time) == date \in DOMAIN DateOf /\ time \in DOMAIN TimeOf

Timestamp(date, time) == DateOf[date] * 86400 + TimeOf[time]

IsPort(token) == token \in DOMAIN IntegerOf /\ IntegerOf[token] <= 65535

\* the conversion rule of a shape: the value, or Unset when the argument does
\* not have the shape
Convert(shape, line) ==
  LET a == line.args
  IN  CASE shape = "integer" ->
             IF Len(a) = 1 /\ a[1] \in DOMAIN IntegerOf
             THEN Value(<<IntegerOf[a[1]]>>, <<>>, <<>>) ELSE Unset
        [] shape = "timestamp" ->
             IF Len(a) = 2 /\ IsTimestamp(a[1], a[2])
             THEN Value(<<Timestamp(a[1], a[2])>>, <<>>, <<>>) ELSE Unset
        [] shape = "router" ->
             IF /\ Len(a) = 8
                /\ IsTimestamp(a[4], a[5])
                /\ a[6] \in Addresses
                /\ IsPort(a[7]) /\ IsPort(a[8])
             THEN Value(<<Timestamp(a[4], a[5]), IntegerOf[a[7]], IntegerOf[a[8]]>>,
                        <<a[1], a[2], a[3], a[6]>>, <<>>)
             ELSE Unset
        [] shape = "authority" ->
             IF Len(a) = 6 /\ a[4] \in Addresses /\ IsPort(a[5]) /\ IsPort(a[6])
             THEN Value(<<IntegerOf[a[5]], IntegerOf[a[6]]>>, <<a[1], a[2], a[3], a[4]>>, <<>>)
             ELSE Unset
        [] shape = "block" ->
             IF line.block # NoBlock
             THEN Value(<<>>, <<line.block.tag>>, line.block.bytes) ELSE Unset
        [] shape = "signature" ->
             IF Len(a) >= 2 /\ line.block # NoBlock
             THEN Value(<<>>, Append(a, line.block.tag), line.block.bytes) ELSE Unset
        [] shape = "string" ->
             IF a # <<>> THEN Value(<<>>, a, <<>>) ELSE Unset
        [] OTHER -> Value(<<>>, a, <<>>)

(***************************************************************************)
(* The document assembler.                                                 *)
(***************************************************************************)
Matched(schema, keyword) == \E i \in 1..Len(schema) : schema[i].keyword = keyword

FieldOf(schema, keyword) ==
  schema[CHOOSE i \in 1..Len(schema) : schema[i].keyword = keyword]

SchemaKeywords(schema) == {schema[i].keyword : i \in 1..Len(schema)}

NoProblem == [kind |-> "", keywords |-> <<>>, reason |-> ""]

MalformedLineError ==
  [kind |-> "MalformedLineError", keywords |-> <<>>, reason |-> "unterminated block"]

SchemaViolationError(keywords, reason) ==
  [kind |-> "SchemaViolationError", keywords |-> keywords, reason |-> reason]

ArgumentShapeError(keyword, shape) ==
  [kind |-> "ArgumentShapeError", keywords |-> <<keyword>>, reason |-> shape]

\* what is wrong with a line of the schema at position i, if anything
Problem(field, line, i, count, seen) ==
  IF \/ field.position = "first" /\ i # 1
     \/ field.position = "last" /\ i # count
  THEN SchemaViolationError(<<line.keyword>>, "misordered")
  ELSE IF field.cardinality \notin {"zero-or-more", "one-or-more"} /\ line.keyword \in seen
  THEN SchemaViolationError(<<line.keyword>>, "duplicated")
  ELSE IF ~Convert(field.shape, line).set
  THEN ArgumentShapeError(line.keyword, field.shape)
  ELSE NoProblem

RECURSIVE AssembleLines(_, _, _, _, _)
\* lines i.. of the document: a line of the schema is checked, converted and
\* stored, any other line is collected as unrecognized.  Strict assembly stops
\* at the first problem; permissive assembly stores what converts and collects
\* the line it could not store.
AssembleLines(lines, i, schema, strict, state) ==
  IF i > Len(lines) THEN [error |-> NoProblem, state |-> state]
  ELSE
    LET line == lines[i]
    IN  IF ~Matched(schema, line.keyword)
        THEN AssembleLines(lines, i + 1, schema, strict,
                           [state EXCEPT !.unrecognized = Append(@, line)])
        ELSE
          LET field   == FieldOf(schema, line.keyword)
              problem == Problem(field, line, i, Len(lines), state.seen)
              value   == Convert(field.shape, line)
              stored  == [state EXCEPT !.fields[line.keyword] = value,
                                       !.seen = @ \cup {line.keyword}]
          IN  IF problem = NoProblem
              THEN AssembleLines(lines, i + 1, schema, strict, stored)
              ELSE IF strict THEN [error |-> problem, state |-> state]
              ELSE IF problem.reason = "misordered" /\ value.set /\ line.keyword \notin state.seen
              THEN AssembleLines(lines, i + 1, schema, strict, stored)
              ELSE AssembleLines(lines, i + 1, schema, strict,
                                 [state EXCEPT !.unrecognized = Append(@, line)])

\* the exactly-one (and one-or-more) keywords that were not seen, in schema order
Missing(schema, seen) ==
  LET mandatory == SelectSeq(schema, LAMBDA f : f.cardinality \in {"exactly-one", "one-or-more"}
                                                /\ f.keyword \notin seen)
  IN  [i \in 1..Len(mandatory) |-> mandatory[i].keyword]

NoDocument == [lines |-> <<>>, fields |-> <<>>, unrecognized |-> <<>>]

NotRun == [ran |-> FALSE, ok |-> FALSE, error |-> NoProblem, doc |-> NoDocument]

Rejected(error) == [ran |-> TRUE, ok |-> FALSE, error |-> error, doc |-> NoDocument]

Outcome(lines, schema, strict, done) ==
  IF done.error # NoProblem THEN Rejected(done.error)
  ELSE IF strict /\ Missing(schema, done.state.seen) # <<>>
  THEN Rejected(SchemaViolationError(Missing(schema, done.state.seen), "missing"))
  ELSE [ran |-> TRUE, ok |-> TRUE, error |-> NoProblem,
        doc |-> [lines |-> lines, fields |-> done.state.fields,
                 unrecognized |-> done.state.unrecognized]]

Assemble(lines, schema, strict) ==
  Outcome(lines, schema, strict,
          AssembleLines(lines, 1, schema, strict,
                        [fields |-> [k \in SchemaKeywords(schema) |-> Unset],
                         unrecognized |-> <<>>, seen |-> {}]))

(***************************************************************************)
(* Container documents: HEADER -> AUTHORITIES* -> ROUTERS* -> FOOTER.       *)
(***************************************************************************)
\* the section a keyword opens, "" when it opens none
SectionOpening(keyword) ==
  CASE keyword = "dir-source" -> "AUTHORITIES"
    [] keyword = "r" -> "ROUTERS"
    [] keyword \in {"directory-footer", "directory-signature"} -> "FOOTER"
    [] OTHER -> ""

SectionRank(section) ==
  CASE section = "HEADER" -> 0
    [] section = "AUTHORITIES" -> 1
    [] section = "ROUTERS" -> 2
    [] OTHER -> 3

\* s with line added to its last element
AppendToLast(s, line) == [s EXCEPT ![Len(s)] = Append(@, line)]

NoSections ==
  [header |-> <<>>, authorities |-> <<>>, routers |-> <<>>, footer |-> <<>>,
   misordered |-> <<>>]

RECURSIVE Sections(_, _, _, _)
\* the lines of each section: a section-opening keyword advances the state (and
\* opens a new authority or router block), one that would move the state back
\* is out of order, any other line belongs to the current section or block
Sections(lines, i, section, found) ==
  IF i > Len(lines) THEN found
  ELSE
    LET line    == lines[i]
        opening == SectionOpening(line.keyword)
    IN  IF opening = ""
        THEN Sections(lines, i + 1, section,
               CASE section = "HEADER" -> [found EXCEPT !.header = Append(@, line)]
                 [] section = "AUTHORITIES" ->
                      [found EXCEPT !.authorities = AppendToLast(@, line)]
                 [] section = "ROUTERS" -> [found EXCEPT !.routers = AppendToLast(@, line)]
                 [] OTHER -> [found EXCEPT !.footer = Append(@, line)])
        ELSE IF SectionRank(opening) < SectionRank(section)
        THEN Sections(lines, i + 1, section, [found EXCEPT !.misordered = Append(@, line)])
        ELSE Sections(lines, i + 1, opening,
               CASE opening = "AUTHORITIES" ->
                      [found EXCEPT !.authorities = Append(@, <<line>>)]
                 [] opening = "ROUTERS" -> [found EXCEPT !.routers = Append(@, <<line>>)]
                 [] OTHER -> [found EXCEPT !.footer = Append(@, line)])

\* whether the header says the document is a vote
IsVote(header) ==
  \E i \in 1..Len(header) : header[i].keyword = "vote-status" /\ header[i].args = <<"vote">>

\* the first line of a keyword, Len + 1 when there is none
FirstOf(lines, keyword) ==
  LET found == {i \in 1..Len(lines) : lines[i].keyword = keyword}
  IN  IF found = {} THEN Len(lines) + 1 ELSE CHOOSE i \in found : \A j \in found : i <= j

\* an authority's outcome: its own failure, else its key certificate's, else
\* its document with the key certificate attached
WithKeyCertificate(lines, own, key) ==
  IF ~own.ok THEN own
  ELSE IF ~key.ok THEN key
  ELSE [own EXCEPT !.doc = [lines |-> lines, fields |-> own.doc.fields,
                            unrecognized |-> own.doc.unrecognized,
                            key_certificate |-> key.doc]]

\* the lines of an authority from `cut` on are its key certificate
AuthorityCutAt(lines, cut, is_vote, strict) ==
  WithKeyCertificate(lines,
    Assemble(SubSeq(lines, 1, cut - 1), DirectoryAuthoritySchema(is_vote), strict),
    IF is_vote
    THEN Assemble(SubSeq(lines, cut, Len(lines)), KeyCertificateSchema, strict)
    ELSE [ran |-> TRUE, ok |-> TRUE, error |-> NoProblem, doc |-> NoDocument])

\* a directory authority: its own lines and, in a vote, its key certificate
AssembleAuthority(lines, is_vote, strict) ==
  AuthorityCutAt(lines,
                 IF is_vote THEN FirstOf(lines, "dir-key-certificate-version")
                 ELSE Len(lines) + 1,
                 is_vote, strict)

\* the first failure of a sequence of outcomes, NoProblem when there is none
FirstError(outcomes) ==
  LET failed == {i \in 1..Len(outcomes) : ~outcomes[i].ok}
  IN  IF failed = {} THEN NoProblem
      ELSE outcomes[CHOOSE i \in failed : \A j \in failed : i <= j].error

\* the container's outcome from the outcomes of its parts: the first failure
\* in document order, else the document with its authorities and routers
Contained(lines, strict, misordered, top, authorities, routers) ==
  IF strict /\ misordered # <<>>
  THEN Rejected(SchemaViolationError(<<misordered[1].keyword>>, "misordered"))
  ELSE IF ~top.ok THEN top
  ELSE IF FirstError(authorities) # NoProblem THEN Rejected(FirstError(authorities))
  ELSE IF FirstError(routers) # NoProblem THEN Rejected(FirstError(routers))
  ELSE [ran |-> TRUE, ok |-> TRUE, error |-> NoProblem,
        doc |-> [lines |-> lines, fields |-> top.doc.fields,
                 unrecognized |-> top.doc.unrecognized \o misordered,
                 authorities |-> [i \in 1..Len(authorities) |-> authorities[i].doc],
                 routers |-> [i \in 1..Len(routers) |-> routers[i].doc]]]

\* every part of the container assembled on its own
AssembleSections(lines, strict, found, is_vote) ==
  Contained(lines, strict, found.misordered,
            Assemble(found.header \o found.footer,
                     NetworkStatusDocumentV3Schema(is_vote), strict),
            [i \in 1..Len(found.authorities) |->
               AssembleAuthority(found.authorities[i], is_vote, strict)],
            [i \in 1..Len(found.routers) |->
               Assemble(found.routers[i], RouterStatusEntryV3Schema, strict)])

SectionsFound(lines, strict, found) ==
  AssembleSections(lines, strict, found, IsVote(found.header))

AssembleNetworkStatus(lines, strict) ==
  SectionsFound(lines, strict, Sections(lines, 1, "HEADER", NoSections))

parse_one_permissive_drops_unrecognized(raw, dialect, strict) ==
  LET lexed == Lex(raw, <<>>)
      built_ == Assemble(lexed.lines, Schema(dialect), strict)
  IN  IF ~lexed.ok THEN Rejected(MalformedLineError)
      ELSE IF strict \/ ~built_.ok THEN built_
      ELSE [built_ EXCEPT !.doc.unrecognized = <<>>]

\* parse_one(bytes, dialect, strict)
parse_one(raw, dialect, strict) ==
  LET lexed == Lex(raw, <<>>)
  IN  IF ~lexed.ok THEN Rejected(MalformedLineError)
      ELSE IF dialect = "network-status-3" THEN AssembleNetworkStatus(lexed.lines, strict)
      ELSE Assemble(lexed.lines, Schema(dialect), strict)

(***************************************************************************)
(* Re-rendering a document: its fields and its unrecognized lines, in the  *)
(* order of its original lines.                                            *)
(***************************************************************************)
\* the token a conversion table turns into `value`
TokenOf(table, value) == CHOOSE token \in DOMAIN table : table[token] = value

\* the date and the time of a timestamp
TimestampTokens(timestamp) ==
  <<TokenOf(DateOf, timestamp \div 86400), TokenOf(TimeOf, timestamp % 86400)>>

\* the line a typed value is rendered as
RenderField(keyword, shape, value) ==
  CASE shape = "integer" ->
         DescriptorLine(keyword, <<TokenOf(IntegerOf, value.ints[1])>>, NoBlock)
    [] shape = "timestamp" ->
         DescriptorLine(keyword, TimestampTokens(value.ints[1]), NoBlock)
    [] shape = "router" ->
         DescriptorLine(keyword,
                        SubSeq(value.strs, 1, 3) \o TimestampTokens(value.ints[1])
                          \o <<value.strs[4], TokenOf(IntegerOf, value.ints[2]),
                               TokenOf(IntegerOf, value.ints[3])>>,
                        NoBlock)
    [] shape = "block" ->
         DescriptorLine(keyword, <<>>, [tag |-> value.strs[1], bytes |-> value.bytes])
    [] OTHER -> DescriptorLine(keyword, value.strs, NoBlock)

\* the text of a logical line: its keyword line and its block, base64 encoded
RenderLine(line) ==
  <<KeywordLine(line.keyword, line.args)>>
    \o (IF line.block = NoBlock THEN <<>>
        ELSE <<BeginLine(line.block.tag), DataLine(b64encode(line.block.bytes)),
               EndLine(line.block.tag)>>)

RECURSIVE RenderFrom(_, _, _, _)
\* the lines from the i-th on: an unrecognized line is rendered as it was
\* collected, any other line from the field of its keyword
RenderFrom(doc, schema, i, unrecognized) ==
  IF i > Len(doc.lines) THEN <<>>
  ELSE IF unrecognized # <<>> /\ unrecognized[1].keyword = doc.lines[i].keyword
          /\ (~Matched(schema, doc.lines[i].keyword)
               \/ ~doc.fields[doc.lines[i].keyword].set
               \/ \E j \in 1..(i - 1) : doc.lines[j].keyword = doc.lines[i].keyword)
  THEN RenderLine(unrecognized[1]) \o RenderFrom(doc, schema, i + 1, Tail(unrecognized))
  ELSE IF Matched(schema, doc.lines[i].keyword) /\ doc.fields[doc.lines[i].keyword].set
  THEN RenderLine(RenderField(doc.lines[i].keyword,
                              FieldOf(schema, doc.lines[i].keyword).shape,
                              doc.fields[doc.lines[i].keyword]))
         \o RenderFrom(doc, schema, i + 1, unrecognized)
  ELSE RenderFrom(doc, schema, i + 1, unrecognized)

Render(doc, schema) == RenderFrom(doc, schema, 1, doc.unrecognized)

\* the range a digest is computed over: from the start of the document
\* through the keyword line the signature block follows (the whole document
\* when it has no signature)
SignedRange(raw, dialect) ==
  IF dialect = "dir-key-certificate-3"
  THEN SubSeq(raw, 1, Min(FirstOf(raw, "dir-key-certification"), Len(raw)))
  ELSE raw

\* a digest, as the text it is the digest of
Digest(raw) == [sha1 |-> raw]

(***************************************************************************)
(* The streaming multi-document reader: parse_stream(stream, dialect,      *)
(* strict), a generator with a private cursor.                             *)
(***************************************************************************)
\* the keyword that opens a document of the dialect
Sentinel(dialect) ==
  IF dialect = "router-status-entry-v3" THEN "r" ELSE "dir-key-certificate-version"

\* the first line at or after `from` that opens a document, Len + 1 if none
NextBoundary(stream, dialect, from) ==
  LET opening == {i \in from..Len(stream) :
                    stream[i].kind = "line" /\ stream[i].keyword = Sentinel(dialect)}
  IN  IF opening = {} THEN Len(stream) + 1
      ELSE CHOOSE i \in opening : \A j \in opening : i <= j

NoReader ==
  [stream |-> <<>>, dialect |-> "", strict |-> FALSE, cursor |-> 1, yielded |-> <<>>,
   error |-> NoProblem, ended |-> FALSE]

\* parse_stream(stream, dialect, strict) before its first pull
parse_stream(stream, dialect, strict) ==
  [NoReader EXCEPT !.stream = stream, !.dialect = dialect, !.strict = strict]

\* one pull: scan to the next boundary, slice the document up to the boundary
\* after it, assemble it and yield it.  A document that does not assemble ends
\* a strict reader with its error and is skipped by a permissive one, which
\* goes on to the next boundary.
RECURSIVE pull(_)
pull(r) ==
  LET start == NextBoundary(r.stream, r.dialect, r.cursor)
      stop  == NextBoundary(r.stream, r.dialect, start + 1)
      doc   == parse_one(SubSeq(r.stream, start, stop - 1), r.dialect, r.strict)
  IN  IF start > Len(r.stream) THEN [r EXCEPT !.cursor = start, !.ended = TRUE]
      ELSE IF doc.ok THEN [r EXCEPT !.cursor = stop, !.yielded = Append(@, doc.doc)]
      ELSE IF r.strict THEN [r EXCEPT !.error = doc.error, !.ended = TRUE]
      ELSE pull([r EXCEPT !.cursor = stop])

(***************************************************************************)
(* The inputs.                                                             *)
(***************************************************************************)
\* the most extensions a certificate is built with
MaxExtensions == 2

Versions == {0, 1, 2, 255}

CertTypes == {0, 1, 4, 6, 7, 8, 255}

DeclaredLengths == {0, 1, 32}

SuppliedLengths == {0, 1, 2, 31, 32, 33}

ExtensionTypes == {HAS_SIGNING_KEY, 5}

FlagBytes == {0, 7}

\* sizes the decoded certificate is cut down to
ShortSizes == {1, 18, 39, 103}

TestExtensions ==
  {BASIC_SIGNING_KEY_EXTENSION, BASIC_UNKNOWN_EXTENSION, MISSING_HEADER_EXTENSION,
   TRUNCATED_EXTENSION, EXTRA_DATA_EXTENSION, TRUNCATED_SIGNING_KEY_EXTENSION}

AllExtensions ==
  TestExtensions \cup
    {Extension(d, t, f, s) : d \in DeclaredLengths, t \in ExtensionTypes,
                             f \in FlagBytes, s \in SuppliedLengths}

CoreExtensions == TestExtensions \cup {Extension(1, 5, 1, 1), <<0, 0>>}

\* an extension without data for every flag byte
FlagExtensions == {Extension(0, 5, f, 0) : f \in 0..255}

RECURSIVE ListsUpTo(_, _)
\* the lists of at most n elements of S
ListsUpTo(S, n) ==
  IF n = 0 THEN {<<>>}
  ELSE LET shorter == ListsUpTo(S, n - 1)
       IN  shorter \cup {Append(l, x) : l \in shorter, x \in S}

Keys == {Repeat(3, 32), Repeat(17, 32), Repeat(34, 32)}

Built(source, version, cert_type, extension_data, size) ==
  [source |-> source, version |-> version, cert_type |-> cert_type,
   extension_data |-> extension_data, size |-> size]

NoDescriptor == [master_key |-> NoKey, accepted |-> {}, nacl |-> FALSE]

NoContent == [dialect |-> "", attr |-> <<>>, exclude |-> {}, content |-> <<>>]

NotAssembled == [strict |-> NotRun, permissive |-> NotRun]

\* certificate(version, cert_type, [extension]) and certificate(extension_data = [...])
InitCertificate ==
  \E v \in Versions, t \in CertTypes, e \in ListsUpTo(AllExtensions, 1)
                                             \cup ListsUpTo(CoreExtensions, MaxExtensions)
                                             \cup {<<x>> : x \in FlagExtensions} :
    /\ (Len(e) > 1 \/ e \notin ListsUpTo(AllExtensions, 1)) => v = 1 /\ t = 4
    /\ built = Built("certificate", v, t, e, Len(certificate_bytes(v, t, e)))
    /\ content = certificate(v, t, e)

\* a certificate that lost its tail
InitShort ==
  \E v \in Versions, t \in CertTypes, n \in ShortSizes :
    /\ built = Built("short", v, t, <<>>, n)
    /\ content = b64encode(Slice(certificate_bytes(v, t, <<>>), 0, n))

\* hours since the epoch a certificate expires at
ExpirationHours == {0, 1, 255, 256, 65535, 65536, 400217, 596523}

\* n as four bytes, big-endian
FourBytes(n) == <<n \div 16777216, (n \div 65536) % 256, (n \div 256) % 256, n % 256>>

\* a certificate without extensions that expires at another hour
InitExpiring ==
  \E hours \in ExpirationHours :
    /\ built = Built("expiring", 1, 4, <<>>, 104)
    /\ content = b64encode(SubSeq(certificate_bytes(1, 4, <<>>), 1, 2) \o FourBytes(hours)
                             \o SliceFrom(certificate_bytes(1, 4, <<>>), 6))

\* the texts the tests spell out, and a certificate that lost its last character
InitText ==
  /\ built = Built("text", 0, 0, <<>>, 0)
  /\ content \in {<<>>, TOO_SHORT_CONTENT, NON_BASE64_CONTENT, ED25519_CERT,
                  SubSeq(certificate(1, 4, <<>>), 1, Len(certificate(1, 4, <<>>)) - 1)}

Init ==
  /\ pc = "built"
  /\ InitCertificate \/ InitShort \/ InitText \/ InitExpiring
  /\ result = Failure(NoError)
  /\ target = NoDescriptor
  /\ validation = NotValidated
  /\ document = NoContent
  /\ assembled = NotAssembled
  /\ reader = NoReader
  /\ NoTools

\* cert = Ed25519Certificate.parse(content)
Parse ==
  /\ pc = "built"
  /\ pc' = "parsed"
  /\ result' = Ed25519Certificate_parse(content)
  /\ UNCHANGED <<built, content, target, validation, document, assembled, reader, toolVars>>

\* desc = next(stem.descriptor.parse_file(descriptor_file, validate = False))
ParseFile ==
  /\ pc = "parsed"
  /\ result.ok
  /\ \E master_key \in Keys \cup {NoKey}, accepted \in SUBSET Keys, nacl \in BOOLEAN :
       target' = [master_key |-> master_key, accepted |-> accepted, nacl |-> nacl]
  /\ pc' = "opened"
  /\ UNCHANGED <<built, content, result, validation, document, assembled, reader, toolVars>>

\* desc.ed25519_master_key = None
without_master_key_or_signature(desc) == [desc EXCEPT !.master_key = NoKey, !.accepted = {}]

without_master_key(desc) == [desc EXCEPT !.master_key = NoKey]

ClearMasterKey ==
  /\ pc = "opened"
  /\ target.master_key # NoKey
  /\ target' = without_master_key(target)
  /\ UNCHANGED <<pc, built, content, result, validation, document, assembled, reader, toolVars>>

\* cert.validate(desc)
Validate ==
  /\ pc = "opened"
  /\ validation' = validate(result.cert, target, target.nacl)
  /\ pc' = "validated"
  /\ UNCHANGED <<built, content, result, target, document, assembled, reader, toolVars>>

Next == Parse \/ ParseFile \/ ClearMasterKey \/ Validate

Spec == Init /\ [][Next]_vars

(***************************************************************************)
(* Documents: the content test/mocking.py builds, parsed both ways.        *)
(***************************************************************************)
\* the most entries of attr
MaxAttr == 2

AttrEntries(dialect) ==
  IF dialect = "router-status-entry-v3"
  THEN { <<"s", Text(<<"Fast", "Ninja">>)>>,
         <<"r", Text(<<"caerSidi">>)>>,
         <<"v", Text(<<"Tor", "0.2.2.35">>)>>,
         <<"v", Text(<<>>)>>,
         <<"zz", Text(<<"unrecognized">>)>>,
         <<"s", None>> }
  ELSE { <<"dir-key-certificate-version", Text(<<"three">>)>>,
         <<"dir-key-published", Text(<<"2011-11-28">>)>>,
         <<"dir-address", Text(<<"127.0.0.1:80">>)>>,
         <<"dir-identity-key", Text(<<>>)>>,
         <<"zz", Text(<<"unrecognized">>)>>,
         <<"pepperjack", None>> }

\* attr: a mapping, so no keyword twice
Attrs(dialect) ==
  {attr \in ListsUpTo(AttrEntries(dialect), MaxAttr) :
     \A i, j \in 1..Len(attr) : attr[i][1] = attr[j][1] => i = j}

Excludable(dialect) ==
  IF dialect = "router-status-entry-v3" THEN {"r", "s"}
  ELSE {"dir-key-certificate-version", "dir-key-certification"}

\* text added after the content mocking.py provides
Additions(dialect) ==
  { <<>>,
    <<KeywordLine("zz", <<>>)>>,
    <<KeywordLine("dir-key-crosscert", <<>>), BeginLine("ID SIGNATURE"), DataLine(CRYPTO_BLOB)>>,
    <<KeywordLine("dir-key-crosscert", <<>>), BeginLine("ID SIGNATURE"), DataLine(CRYPTO_BLOB),
      EndLine("ID SIGNATURE")>> }
  \cup (IF dialect = "router-status-entry-v3"
        THEN {<<KeywordLine("s", <<"Exit">>)>>}
        ELSE {<<KeywordLine("fingerprint", <<"27B6B5996C426270A5C95488AA5BCEB6BCC86956">>)>>})

Content(dialect, attr, exclude) ==
  IF dialect = "router-status-entry-v3" THEN get_router_status_entry_v3(attr, exclude)
  ELSE get_key_certificate(attr, exclude)

InitDoc ==
  /\ pc = "content"
  /\ built = Built("", 0, 0, <<>>, 0)
  /\ content = <<>>
  /\ result = Failure(NoError)
  /\ target = NoDescriptor
  /\ validation = NotValidated
  /\ \E dialect \in Dialects :
       \E attr \in Attrs(dialect), exclude \in SUBSET Excludable(dialect),
          more \in Additions(dialect) :
         document = [dialect |-> dialect, attr |-> attr, exclude |-> exclude,
                     content |-> Content(dialect, attr, exclude) \o more]
  /\ assembled = NotAssembled
  /\ reader = NoReader
  /\ NoTools

\* parse_one(content, dialect, strict = True)
ParseStrict ==
  /\ pc = "content"
  /\ ~assembled.strict.ran
  /\ assembled' = [assembled EXCEPT
                     !.strict = parse_one(document.content, document.dialect, TRUE)]
  /\ UNCHANGED <<pc, built, content, result, target, validation, document, reader, toolVars>>

\* parse_one(content, dialect, strict = False)
ParsePermissive ==
  /\ pc = "content"
  /\ ~assembled.permissive.ran
  /\ assembled' = [assembled EXCEPT
                     !.permissive = parse_one(document.content, document.dialect, FALSE)]
  /\ UNCHANGED <<pc, built, content, result, target, validation, document, reader, toolVars>>

NextDoc == ParseStrict \/ ParsePermissive

SpecDoc == InitDoc /\ [][NextDoc]_vars

(***************************************************************************)
(* Network status documents: the votes and consensuses test/mocking.py     *)
(* builds, with their directory authorities and router status entries.     *)
(***************************************************************************)
\* the most directory authorities and router status entries given
MaxAuthorities == 1

MaxRouters == 1

\* the arguments of get_directory_authority and get_router_status_entry_v3
Arguments(attr, exclude) == [attr |-> attr, exclude |-> exclude]

AuthorityArguments ==
  { Arguments(<<>>, {}),
    Arguments(<<>>, {"vote-digest"}),
    Arguments(<<>>, {"contact", "vote-digest"}),
    Arguments(<< <<"zz", Text(<<"unrecognized">>)>> >>, {}) }

RouterArguments ==
  { Arguments(<<>>, {}),
    Arguments(<<>>, {"s"}),
    Arguments(<< <<"s", Text(<<"Fast", "Ninja">>)>> >>, {}),
    Arguments(<< <<"zz", Text(<<"unrecognized">>)>> >>, {}) }

DocumentAttrs ==
  { <<>>, << <<"pepperjack", Text(<<"is", "oh", "so", "tasty">>)>> >> }

DocumentExcludes ==
  { {}, {"known-flags"}, {"directory-footer"}, {"directory-footer", "directory-signature"} }

\* a document built from arguments of the given sets
InitDocuments(attrs, authority_arguments, router_arguments) ==
  /\ pc = "content"
  /\ built = Built("", 0, 0, <<>>, 0)
  /\ content = <<>>
  /\ result = Failure(NoError)
  /\ target = NoDescriptor
  /\ validation = NotValidated
  /\ \E is_vote \in BOOLEAN, more \in attrs, exclude \in DocumentExcludes,
        authorities \in {NoAuthorities}
                          \cup {Authorities(a) : a \in ListsUpTo(authority_arguments, MaxAuthorities)},
        routers \in ListsUpTo(router_arguments, MaxRouters) :
       LET attr == (IF is_vote THEN << <<"vote-status", Text(<<"vote">>)>> >> ELSE <<>>) \o more
       IN  document =
             [dialect |-> "network-status-3", attr |-> attr, exclude |-> exclude,
              authorities |-> authorities, routers |-> routers,
              content |->
                get_network_status_document_v3(
                  attr, exclude,
                  [authorities EXCEPT !.entries =
                     [i \in 1..Len(@) |-> get_directory_authority(@[i].attr, @[i].exclude, is_vote)]],
                  [i \in 1..Len(routers) |->
                     get_router_status_entry_v3(routers[i].attr, routers[i].exclude)])]
  /\ assembled = NotAssembled
  /\ reader = NoReader
  /\ NoTools

InitNetworkStatus == InitDocuments(DocumentAttrs, AuthorityArguments, RouterArguments)

SpecNetworkStatus == InitNetworkStatus /\ [][NextDoc]_vars

\* documents whose arguments bring keywords that open a section: an `r` line
\* among the header's, a directory-signature line in an authority, a dir-source
\* line in a router status entry
SectionAttrs ==
  { <<>>, << <<"pepperjack", Text(<<"is", "oh", "so", "tasty">>)>> >>,
    << <<"r", Text(<<"caerSidi">>)>> >> }

SectionAuthorityArguments ==
  { Arguments(<<>>, {}),
    Arguments(<< <<"zz", Text(<<"unrecognized">>)>> >>, {}),
    Arguments(<< <<"directory-signature", Text(<<"early">>)>> >>, {}) }

SectionRouterArguments ==
  { Arguments(<<>>, {}),
    Arguments(<< <<"zz", Text(<<"unrecognized">>)>> >>, {}),
    Arguments(<< <<"dir-source", Text(<<"turtles">>)>> >>, {}) }

InitSections == InitDocuments(SectionAttrs, SectionAuthorityArguments, SectionRouterArguments)

SpecSections == InitSections /\ [][NextDoc]_vars

(***************************************************************************)
(* Streams: router status entries (v3) one after the other, as in a file   *)
(* of cached descriptors, read with parse_stream.                          *)
(***************************************************************************)
\* the most records of a stream
MaxRecords == 3

\* a record: the entry test/mocking.py builds, and text that follows it
Record(attr, exclude, more) == [attr |-> attr, exclude |-> exclude, more |-> more]

\* records that are well formed
WellFormedRecords ==
  { Record(<<>>, {}, <<>>),
    Record(<< <<"v", Text(<<"Tor", "0.2.2.35">>)>> >>, {}, <<>>),
    Record(<< <<"zz", Text(<<"unrecognized">>)>> >>, {}, <<>>) }

\* records that are not: no 's' line, and a block that is never closed
MalformedRecords ==
  { Record(<<>>, {"s"}, <<>>),
    Record(<<>>, {}, <<KeywordLine("id", <<"ed25519">>), BeginLine("ED25519 CERT"),
                       DataLine(CRYPTO_BLOB)>>) }

RecordText(record) == get_router_status_entry_v3(record.attr, record.exclude) \o record.more

InitStream ==
  /\ pc = "stream"
  /\ built = Built("", 0, 0, <<>>, 0)
  /\ content = <<>>
  /\ result = Failure(NoError)
  /\ target = NoDescriptor
  /\ validation = NotValidated
  /\ assembled = NotAssembled
  /\ \E records \in ListsUpTo(WellFormedRecords \cup MalformedRecords, MaxRecords),
        strict \in BOOLEAN :
       /\ document = [dialect |-> "router-status-entry-v3", records |-> records,
                      content |-> Join([i \in 1..Len(records) |-> RecordText(records[i])])]
       /\ reader = parse_stream(document.content, document.dialect, strict)
  /\ NoTools

\* next(reader)
Pull ==
  /\ pc = "stream"
  /\ ~reader.ended
  /\ reader' = pull(reader)
  /\ UNCHANGED <<pc, built, content, result, target, validation, document, assembled, toolVars>>

NextStream == Pull

SpecStream == InitStream /\ [][NextStream]_vars

(***************************************************************************)
(* Part 3.  stem.connection.authenticate, as the unit test drives it: the  *)
(* PROTOCOLINFO response names the methods tor advertises, and the         *)
(* authenticate_* functions are mocks that return or raise.  authenticate  *)
(* translates the response into authenticate_* calls and prioritizes the   *)
(* exceptions if they all fail.  An exception is its class name, "None" is *)
(* a call that returns.                                                    *)
(***************************************************************************)
AuthMethod == {"NONE", "PASSWORD", "COOKIE", "SAFECOOKIE", "UNKNOWN"}

\* the exceptions that the authentication functions are documented to raise
all_auth_none_exc_undocumented == {"None", "OpenAuthRejected", "ControllerError", "ValueError"}

all_auth_none_exc == {"None", "OpenAuthRejected", "ControllerError"}

all_auth_password_exc ==
  {"None", "PasswordAuthRejected", "IncorrectPassword", "ControllerError"}

all_auth_cookie_exc ==
  {"None", "CookieAuthRejected", "IncorrectCookieValue", "IncorrectCookieSize",
   "UnreadableCookieFile", "AuthChallengeFailed", "ControllerError"}

\* get_all_combinations(attr, include_empty = True)
get_all_combinations(attr) == SUBSET attr

\* AuthenticationFailure and its subclasses
AuthenticationFailures ==
  {"AuthenticationFailure", "IncorrectSocketType", "NoAuthMethods",
   "UnrecognizedAuthMethods", "OpenAuthRejected", "PasswordAuthRejected",
   "IncorrectPassword", "MissingPassword", "CookieAuthRejected", "IncorrectCookieValue",
   "IncorrectCookieSize", "UnreadableCookieFile", "AuthChallengeFailed", "NoAuthCookie"}

\* the mock an advertised method is authenticated with; UNKNOWN has none
Callable(auth_methods) == auth_methods \ {"UNKNOWN"}

\* what a failed call leaves for the prioritization: a ControllerError is
\* reported as an AuthenticationFailure
Collected(exc) == IF exc = "ControllerError" THEN "AuthenticationFailure" ELSE exc

\* the exceptions authenticate handles
Handled == AuthenticationFailures \cup {"ControllerError"}

\* authenticate(controller, password, chroot_path, protocolinfo_response): the
\* outcomes it can end with.  It returns once a call returns; when none does
\* it raises one of the failures it collected (which one is a matter of its
\* prioritization); an exception it does not handle leaves it as it is.
authenticate(auth_methods, mocks) ==
  LET calls    == {mocks[m] : m \in Callable(auth_methods)}
      escaping == calls \ (Handled \cup {"None"})
  IN  escaping \cup
      (IF auth_methods = {} THEN {"NoAuthMethods"}
       ELSE IF "None" \in calls THEN {"None"}
       ELSE {Collected(exc) : exc \in calls \cap Handled}
              \cup (IF "UNKNOWN" \in auth_methods THEN {"UnrecognizedAuthMethods"} ELSE {}))

\* authenticate(controller) without a response: get_protocolinfo is called
\* first, and its failure is the outcome
authenticate_without_protocolinfo(get_protocolinfo, mocks) ==
  CASE get_protocolinfo = "ProtocolError" -> {"IncorrectSocketType"}
    [] get_protocolinfo = "SocketError" -> {"AuthenticationFailure"}
    [] OTHER -> authenticate({"NONE"}, mocks)

\* the side effect a mock has: the exception of this iteration for an
\* advertised method, whatever an earlier iteration left for any other
Mocks(auth_methods, auth_none_exc, auth_password_exc, auth_cookie_exc) ==
  { mocks \in [NONE : all_auth_none_exc, PASSWORD : all_auth_password_exc,
               COOKIE : all_auth_cookie_exc, SAFECOOKIE : all_auth_cookie_exc] :
      /\ "NONE" \in auth_methods => mocks.NONE = auth_none_exc
      /\ "PASSWORD" \in auth_methods => mocks.PASSWORD = auth_password_exc
      /\ "COOKIE" \in auth_methods => mocks.COOKIE = auth_cookie_exc
      /\ "SAFECOOKIE" \in auth_methods => mocks.SAFECOOKIE = auth_cookie_exc }

\* test_all_use_cases: one iteration of its loops
InitAllUseCases ==
  \E auth_methods \in get_all_combinations(AuthMethod),
     auth_none_exc \in all_auth_none_exc,
     auth_password_exc \in all_auth_password_exc,
     auth_cookie_exc \in all_auth_cookie_exc :
    /\ ~(auth_none_exc # "None" /\ "NONE" \notin auth_methods)
    /\ ~(auth_password_exc # "None" /\ "PASSWORD" \notin auth_methods)
    /\ ~(auth_cookie_exc # "None" /\ "COOKIE" \notin auth_methods
           /\ "SAFECOOKIE" \notin auth_methods)
    /\ \E mocks \in Mocks(auth_methods, auth_none_exc, auth_password_exc, auth_cookie_exc) :
         auth = [protocolinfo |-> "given", auth_methods |-> auth_methods, mocks |-> mocks,
                 raised |-> ""]

\* test_with_get_protocolinfo: get_protocolinfo returns or raises
InitWithGetProtocolinfo ==
  \E get_protocolinfo \in {"returned", "ProtocolError", "SocketError"} :
    auth = [protocolinfo |-> get_protocolinfo, auth_methods |-> {"NONE"},
            mocks |-> [NONE |-> "None", PASSWORD |-> "None", COOKIE |-> "None",
                       SAFECOOKIE |-> "None"],
            raised |-> ""]

NoDescriptors ==
  /\ built = Built("", 0, 0, <<>>, 0)
  /\ content = <<>>
  /\ result = Failure(NoError)
  /\ target = NoDescriptor
  /\ validation = NotValidated
  /\ document = NoContent
  /\ assembled = NotAssembled
  /\ reader = NoReader

InitAuth ==
  /\ pc = "mocked"
  /\ NoDescriptors
  /\ InitAllUseCases \/ InitWithGetProtocolinfo
  /\ interp = Unused /\ tasks = Unused /\ manual = Unused

\* stem.connection.authenticate(...)
Authenticate ==
  /\ pc = "mocked"
  /\ \E raised \in (IF auth.protocolinfo = "given"
                    THEN authenticate(auth.auth_methods, auth.mocks)
                    ELSE authenticate_without_protocolinfo(auth.protocolinfo, auth.mocks)) :
       auth' = [auth EXCEPT !.raised = raised]
  /\ pc' = "authenticated"
  /\ UNCHANGED <<descriptorVars, interp, tasks, manual>>

NextAuth == Authenticate

SpecAuth == InitAuth /\ [][NextAuth]_vars

(***************************************************************************)
(* stem.interpretor.arguments: parse(argv).  An argument is a text; what   *)
(* python finds in a text (a leading '-', a ':', a number) is looked up in *)
(* the tables below.                                                       *)
(***************************************************************************)
DEFAULT_ARGS ==
  [control_address |-> "127.0.0.1", control_port |-> 9051, user_provided_port |-> FALSE,
   control_socket |-> "/var/run/tor/control", user_provided_socket |-> FALSE,
   print_help |-> FALSE]

\* OPT and OPT_EXPANDED: the options that take an argument, and those that do not
OPT == [with_argument |-> {"-i", "-s"}, without |-> {"-h"}]

OPT_EXPANDED == [with_argument |-> {"--interface", "--socket"}, without |-> {"--help"}]

\* the names the module binds: its imports, its assignments and its functions
ModuleGlobals ==
  {"collections", "getopt", "DEFAULT_ARGS", "OPT", "OPT_EXPANDED", "HELP_OUTPUT", "parse",
   "get_help"}

\* the arguments of the model: options parse accepts, options it does not,
\* and values
AcceptedOptions == {"-i", "-s", "-h", "--interface", "--socket", "--help"}

UnknownOptions == {"-x", "--bogus"}

Values == {"1643", "127.0.0.1:1643", "nope:1643", "127.0.0.1:99999", "/tmp/socket"}

\* arg.split(':', 1) of the values that hold a ':'
SplitAtColon ==
  ("127.0.0.1:1643" :> <<"127.0.0.1", "1643">>) @@ ("nope:1643" :> <<"nope", "1643">>)
    @@ ("127.0.0.1:99999" :> <<"127.0.0.1", "99999">>)

\* int(port) of the texts that are numbers
PortNumber == ("1643" :> 1643) @@ ("99999" :> 99999)

\* stem.util.connection.is_valid_ipv4_address
is_valid_ipv4_address(address) == address \in {"127.0.0.1"}

\* stem.util.connection.is_valid_port
is_valid_port(port) ==
  port \in DOMAIN PortNumber /\ PortNumber[port] > 0 /\ PortNumber[port] < 65536

RECURSIVE getopt(_, _, _)
\* getopt.getopt(argv, OPT, OPT_EXPANDED): the options from the i-th argument
\* on, up to the first argument that is no option; an option it does not
\* know, or one that lacks its argument, is a GetoptError
getopt(argv, i, found) ==
  IF i > Len(argv) \/ argv[i] \in Values THEN [error |-> FALSE, opts |-> found]
  ELSE IF argv[i] \in OPT.without \cup OPT_EXPANDED.without
  THEN getopt(argv, i + 1, Append(found, <<argv[i], "">>))
  ELSE IF argv[i] \in OPT.with_argument \cup OPT_EXPANDED.with_argument
  THEN IF i = Len(argv) THEN [error |-> TRUE, opts |-> <<>>]
       ELSE getopt(argv, i + 2, Append(found, <<argv[i], argv[i + 1]>>))
  ELSE [error |-> TRUE, opts |-> <<>>]

\* how a call of parse ends
Raised(exception, name) == [raised |-> exception, name |-> name, args |-> Unused]

Returned(args_) == [raised |-> "", name |-> "", args |-> args_]

\* the name parse looks up and does not find, "" when it finds them all
Unbound(names) ==
  IF names \subseteq ModuleGlobals THEN ""
  ELSE CHOOSE name \in names : name \notin ModuleGlobals

\* lines 61 to 77: an -i or --interface option
Interface(args_, arg) ==
  LET has_address == arg \in DOMAIN SplitAtColon
      address     == IF has_address THEN SplitAtColon[arg][1] ELSE ""
      port        == IF has_address THEN SplitAtColon[arg][2] ELSE arg
  IN  IF has_address /\ Unbound({"stem"}) # "" THEN Raised("NameError", Unbound({"stem"}))
      ELSE IF has_address /\ ~is_valid_ipv4_address(address)
      THEN IF Unbound({"msg"}) # "" THEN Raised("NameError", Unbound({"msg"}))
           ELSE Raised("ValueError", "")
      ELSE IF Unbound({"stem"}) # "" THEN Raised("NameError", Unbound({"stem"}))
      ELSE IF ~is_valid_port(port)
      THEN IF Unbound({"msg"}) # "" THEN Raised("NameError", Unbound({"msg"}))
           ELSE Raised("ValueError", "")
      ELSE Returned([args_ EXCEPT !.control_address = IF has_address THEN address ELSE @,
                                  !.control_port = PortNumber[port],
                                  !.user_provided_port = TRUE])

RECURSIVE Options(_, _, _)
\* the loop of lines 60 to 82 from the i-th option on
Options(opts, i, args_) ==
  IF i > Len(opts) THEN Returned(args_)
  ELSE IF opts[i][1] \in {"-i", "--interface"}
  THEN IF Interface(args_, opts[i][2]).raised # "" THEN Interface(args_, opts[i][2])
       ELSE Options(opts, i + 1, Interface(args_, opts[i][2]).args)
  ELSE IF opts[i][1] \in {"-s", "--socket"}
  THEN Options(opts, i + 1, [args_ EXCEPT !.control_socket = opts[i][2],
                                          !.user_provided_socket = TRUE])
  ELSE IF opts[i][1] \in {"-h", "--help"}
  THEN Options(opts, i + 1, [args_ EXCEPT !.print_help = TRUE])
  ELSE Options(opts, i + 1, args_)

\* parse(argv)
parse(argv) ==
  IF getopt(argv, 1, <<>>).error
  THEN IF Unbound({"msg"}) # "" THEN Raised("NameError", Unbound({"msg"}))
       ELSE Raised("ValueError", "")
  ELSE Options(getopt(argv, 1, <<>>).opts, 1, DEFAULT_ARGS)

\* the most arguments of a command line
MaxArgv == 3

InitArguments ==
  /\ pc = "argv"
  /\ NoDescriptors
  /\ \E argv \in ListsUpTo(AcceptedOptions \cup UnknownOptions \cup Values, MaxArgv) :
       interp = [argv |-> argv, outcome |-> Returned(Unused)]
  /\ auth = Unused /\ tasks = Unused /\ manual = Unused

\* stem.interpretor.arguments.parse(argv)
ParseArguments ==
  /\ pc = "argv"
  /\ interp' = [interp EXCEPT !.outcome = parse(interp.argv)]
  /\ pc' = "args"
  /\ UNCHANGED <<descriptorVars, auth, tasks, manual>>

NextArguments == ParseArguments

SpecArguments == InitArguments /\ [][NextArguments]_vars

(***************************************************************************)
(* test.util: run_tasks and Task.  A runner is modelled by what calling it *)
(* does: it returns, it raises an Exception (check_for_unused_tests and    *)
(* python3_prereq raise ValueError) or it leaves through sys.exit, which   *)
(* raises SystemExit, no subclass of Exception (python3_run_tests).        *)
(***************************************************************************)
\* a None argument of run_tasks, and the None of Task.error
NoTask == [none |-> TRUE]

NoException == "None"

\* what the runners of test/util.py do, and the argument of their sys.exit
Runners == {"returns", "ValueError", "SystemExit(0)", "SystemExit(256)"}

IsSystemExit(runner) == runner \in {"SystemExit(0)", "SystemExit(256)"}

exit_status(runner) == IF runner = "SystemExit(0)" THEN 0 ELSE 256

\* Task.__init__
Task(runner, is_required) ==
  [runner |-> runner, is_required |-> is_required, error |-> NoException, is_successful |-> FALSE]

\* Task.run: the task afterwards, and the exception that leaves the call
run_successful_first(task) ==
  IF task.runner = "returns" THEN [task |-> [task EXCEPT !.is_successful = TRUE], escaping |-> NoException]
  ELSE IF IsSystemExit(task.runner) THEN [task |-> [task EXCEPT !.is_successful = TRUE], escaping |-> task.runner]
  ELSE [task |-> [task EXCEPT !.is_successful = TRUE, !.error = task.runner], escaping |-> NoException]

run(task) ==
  IF task.runner = "returns" THEN [task |-> [task EXCEPT !.is_successful = TRUE], escaping |-> NoException]
  ELSE IF IsSystemExit(task.runner) THEN [task |-> task, escaping |-> task.runner]
  ELSE [task |-> [task EXCEPT !.error = task.runner], escaping |-> NoException]

MaxTasks == 3

NotExited == -1

\* run_tasks(category, *tasks): the arguments, the position of the loop, the
\* arguments whose run() was called, in the order of the calls, and the
\* status the process exited with
InitTasks ==
  /\ pc = "tasks"
  /\ NoDescriptors
  /\ \E given \in ListsUpTo({NoTask} \cup {Task(runner, is_required) : runner \in Runners, is_required \in BOOLEAN},
                            MaxTasks) :
       tasks = [given |-> given, at |-> 1, ran |-> <<>>, exit |-> NotExited]
  /\ auth = Unused /\ interp = Unused /\ manual = Unused

\* one turn of the loop of run_tasks
RunTask ==
  /\ pc = "tasks"
  /\ tasks.at <= Len(tasks.given)
  /\ LET task == tasks.given[tasks.at]
     IN  IF task = NoTask
         THEN /\ tasks' = [tasks EXCEPT !.at = @ + 1]
              /\ pc' = pc
         ELSE LET outcome == run(task)
                  after   == [tasks EXCEPT !.given[tasks.at] = outcome.task,
                                           !.ran = Append(@, tasks.at)]
              IN  IF outcome.escaping # NoException
                  THEN /\ tasks' = [after EXCEPT !.exit = exit_status(outcome.escaping)]
                       /\ pc' = "exited"
                  ELSE IF outcome.task.is_required /\ outcome.task.error # NoException
                  THEN /\ tasks' = [after EXCEPT !.exit = 1]
                       /\ pc' = "exited"
                  ELSE /\ tasks' = [after EXCEPT !.at = @ + 1]
                       /\ pc' = pc
  /\ UNCHANGED <<descriptorVars, auth, interp, manual>>

\* the loop is over: println() and return
ReturnFromTasks ==
  /\ pc = "tasks"
  /\ tasks.at > Len(tasks.given)
  /\ pc' = "returned"
  /\ UNCHANGED <<descriptorVars, toolVars>>

NextTasks == RunTask \/ ReturnFromTasks

SpecTasks == InitTasks /\ [][NextTasks]_vars

(***************************************************************************)
(* stem.manual.download_man_page.  The file system is the set of the paths *)
(* that exist; the world the call runs in (is a2x installed, does the      *)
(* download work, what does a2x do, do the copies work) is fixed when the  *)
(* call starts.                                                            *)
(***************************************************************************)
dirpath == "/tmp/tmpdir"

asciidoc_path == "/tmp/tmpdir/tor.1.txt"

manual_path == "/tmp/tmpdir/tor.1"

\* the paths under a directory, the directory included
Under(directory) ==
  IF directory = dirpath THEN {dirpath, asciidoc_path, manual_path} ELSE {directory}

\* tempfile.mkdtemp()
mkdtemp(files) == files \cup {dirpath}

\* shutil.rmtree(directory)
rmtree_keeping_directory(files, directory) == files \ (Under(directory) \ {directory})

rmtree(files, directory) == files \ Under(directory)

Paths == {"", "/tmp/saved/tor.1"}

A2xOutcomes == {"man page", "no man page", "OSError"}

CopyOutcomes == {"copied", "OSError", "IOError"}

\* the exception a failing step raises, and the file system after the
\* finally clause
Leaves(exception) == [manual EXCEPT !.raised = exception, !.files = rmtree(manual.files, dirpath)]

InitManual ==
  /\ pc = "download_man_page"
  /\ NoDescriptors
  /\ \E path \in Paths, file_handle \in BOOLEAN, a2x_available \in BOOLEAN, urlopen \in {"page", "URLError"},
        a2x \in A2xOutcomes, copyfile \in CopyOutcomes, copyfileobj \in {"copied", "IOError"} :
       manual = [path |-> path, file_handle |-> file_handle,
                 a2x_available |-> a2x_available, urlopen |-> urlopen, a2x |-> a2x,
                 copyfile |-> copyfile, copyfileobj |-> copyfileobj,
                 files |-> {}, saved |-> FALSE, written |-> FALSE, raised |-> NoException]
  /\ auth = Unused /\ interp = Unused /\ tasks = Unused

\* the checks of the arguments and of a2x, then tempfile.mkdtemp()
MakeDirectory ==
  /\ pc = "download_man_page"
  /\ IF manual.path = "" /\ ~manual.file_handle
     THEN manual' = [manual EXCEPT !.raised = "ValueError"] /\ pc' = "raised"
     ELSE IF ~manual.a2x_available
     THEN manual' = [manual EXCEPT !.raised = "IOError"] /\ pc' = "raised"
     ELSE manual' = [manual EXCEPT !.files = mkdtemp(@)] /\ pc' = "downloading"
  /\ UNCHANGED <<descriptorVars, auth, interp, tasks>>

\* open(asciidoc_path, 'wb'), urllib.urlopen(url) and shutil.copyfileobj
Download ==
  /\ pc = "downloading"
  /\ LET opened == [manual EXCEPT !.files = @ \cup {asciidoc_path}]
     IN  IF manual.urlopen = "page"
         THEN manual' = opened /\ pc' = "converting"
         ELSE manual' = [opened EXCEPT !.raised = "IOError", !.files = rmtree(opened.files, dirpath)]
              /\ pc' = "raised"
  /\ UNCHANGED <<descriptorVars, auth, interp, tasks>>

\* stem.util.system.call('a2x -f manpage ...') and the check of its output
RunA2x ==
  /\ pc = "converting"
  /\ IF manual.a2x = "man page"
     THEN manual' = [manual EXCEPT !.files = @ \cup {manual_path}] /\ pc' = "saving"
     ELSE manual' = Leaves("IOError") /\ pc' = "raised"
  /\ UNCHANGED <<descriptorVars, auth, interp, tasks>>

\* the copy to path, the copy to file_handle, and the finally clause
Save ==
  /\ pc = "saving"
  /\ IF manual.path # "" /\ manual.copyfile # "copied"
     THEN manual' = Leaves("IOError") /\ pc' = "raised"
     ELSE LET copied == IF manual.path = "" THEN manual
                        ELSE [manual EXCEPT !.saved = TRUE, !.files = @ \cup {manual.path}]
          IN  IF manual.file_handle /\ manual.copyfileobj # "copied"
              THEN manual' = [copied EXCEPT !.raised = "IOError", !.files = rmtree(copied.files, dirpath)]
                   /\ pc' = "raised"
              ELSE manual' = [copied EXCEPT !.written = manual.file_handle,
                                            !.files = rmtree(copied.files, dirpath)]
                   /\ pc' = "returned"
  /\ UNCHANGED <<descriptorVars, auth, interp, tasks>>

NextManual == MakeDirectory \/ Download \/ RunA2x \/ Save

SpecManual == InitManual /\ [][NextManual]_vars

(***************************************************************************)
(* stem.manual._get_categories.  A line of the man page is the number of   *)
(* spaces it starts with and the text after them; the empty line is        *)
(* ManLine(0, "").                                                         *)
(***************************************************************************)
ManLine(indent, text) == [indent |-> indent, text |-> text]

\* 'TOR(1)' in line
HasTitle(line) == line.text = "TOR(1)       Tor Manual       TOR(1)"

\* line.replace(...): the smart quote, here spelled [u2019], becomes '
replace(line) ==
  IF line.text = "Tor[u2019]s relays" THEN [line EXCEPT !.text = "Tor's relays"] ELSE line

\* line.strip()
strip(line) == IF line.text = "SEE ALSO " THEN "SEE ALSO" ELSE line.text

\* line and not line.startswith(' ')
IsHeader(line) == line.text # "" /\ line.indent = 0

SECTION_INDENT == 7

\* line[7:] if line.startswith('       ')
Unindented(line) ==
  IF line.indent >= SECTION_INDENT THEN [line EXCEPT !.indent = @ - SECTION_INDENT] ELSE line

EmptyLine == ManLine(0, "")

NoCategory == ""

NoCategories == [category \in {} |-> <<>>]

\* categories[category] = lines
Put(categories, category, lines) ==
  [c \in DOMAIN categories \cup {category} |-> IF c = category THEN lines ELSE categories[c]]

\* the header and the footer line are skipped
WithoutTitles(man_content) ==
  LET headless == IF man_content # <<>> /\ HasTitle(man_content[1]) THEN Tail(man_content) ELSE man_content
  IN  IF headless # <<>> /\ HasTitle(headless[Len(headless)])
      THEN SubSeq(headless, 1, Len(headless) - 1)
      ELSE headless

Categories(categories) == [raised |-> NoException, categories |-> categories]

\* the loop over the lines, from line i on, and the lines after it
RECURSIVE CategoriesFrom(_, _, _, _, _)
CategoriesFrom(man_content, i, categories, category, lines) ==
  IF i > Len(man_content)
  THEN Categories(IF category # NoCategory THEN Put(categories, category, lines) ELSE categories)
  ELSE LET line == replace(man_content[i])
       IN  IF IsHeader(line)
           THEN IF category = NoCategory
                THEN CategoriesFrom(man_content, i + 1, categories, strip(line), <<>>)
                ELSE IF lines = <<>>
                THEN [raised |-> "IndexError", categories |-> NoCategories]
                ELSE CategoriesFrom(man_content, i + 1,
                                        Put(categories, category,
                                            IF lines[Len(lines)] = EmptyLine
                                            THEN SubSeq(lines, 1, Len(lines) - 1) ELSE lines),
                                        strip(line), <<>>)
           ELSE CategoriesFrom(man_content, i + 1, categories, category, Append(lines, Unindented(line)))

_get_categories(man_content) == CategoriesFrom(WithoutTitles(man_content), 1, NoCategories, NoCategory, <<>>)

MaxLines == 4

\* the lines of a man page: its title line, headers, indented lines, an
\* empty line and a line of spaces
ManLines ==
  {ManLine(0, "TOR(1)       Tor Manual       TOR(1)"), ManLine(0, "NAME"), ManLine(0, "SEE ALSO "),
   ManLine(7, "tor - The second-generation onion router"), ManLine(11, "Tor[u2019]s relays"),
   EmptyLine, ManLine(3, "")}

InitCategories ==
  /\ pc = "man page"
  /\ NoDescriptors
  /\ \E man_content \in ListsUpTo(ManLines, MaxLines) :
       manual = [content |-> man_content, outcome |-> Categories(NoCategories)]
  /\ auth = Unused /\ interp = Unused /\ tasks = Unused

\* categories = stem.manual._get_categories(self.man_content)
GetCategories ==
  /\ pc = "man page"
  /\ manual' = [manual EXCEPT !.outcome = _get_categories(manual.content)]
  /\ pc' = "categories"
  /\ UNCHANGED <<descriptorVars, auth, interp, tasks>>

NextCategories == GetCategories

SpecCategories == InitCategories /\ [][NextCategories]_vars

(***************************************************************************)
(* Properties of Ed25519Certificate.parse.                                 *)
(***************************************************************************)
Parsed == pc = "parsed"

\* the bytes the text decodes to
Decoded == b64decode(content).bytes

FromCertificate == built.source = "certificate"

\* the length an encoded extension declares, and whether the extension is
\* complete: its header, exactly the declared data, and 32 bytes of it when it
\* is a signing key
Declared(chunk) == 256 * chunk[1] + chunk[2]

Exact(chunk) ==
  /\ Len(chunk) >= 4
  /\ Len(chunk) = 4 + Declared(chunk)
  /\ chunk[3] = 4 => Declared(chunk) = 32

\* every extension but the last is complete
ExactButLast(extension_data) ==
  /\ extension_data # <<>>
  /\ \A i \in 1..(Len(extension_data) - 1) : Exact(extension_data[i])

LastExtension == built.extension_data[Len(built.extension_data)]

\* a version 1 certificate of an admissible type
GoodHeader == FromCertificate /\ built.version = 1 /\ built.cert_type \notin {0, 7}

\* C1 as stated: every text whose decoding is shorter than 104 bytes fails
\* naming the size of the decoding and 104.
C1_AsStated ==
  (Parsed /\ b64decode(content).ok /\ Len(Decoded) < 104) =>
    /\ ~result.ok
    /\ result.error.args = <<Len(Decoded), 104>>

\* C1, amended: a decoding of 1 to 103 bytes fails naming its size and 104
\* (103 bytes cite 103, the 18 bytes of the test cite 18) and the empty text
\* fails as not base64 encoded; certificate() with version 1, an admissible
\* type and no extension is 104 bytes and parses.
C1_LengthBoundary ==
  Parsed =>
    /\ LET decoded == Decoded
       IN  (b64decode(content).ok /\ decoded # <<>> /\ Len(decoded) < 104) =>
             result = Failure(Error("Ed25519 certificate was %i bytes, but should be at least %i",
                                    <<Len(decoded), 104>>))
    /\ content = <<>> =>
         result = Failure(Error("Ed25519 certificate wasn't propoerly base64 encoded (empty):", <<>>))
    /\ built.source = "short" => result.error.args = <<built.size, 104>>
    /\ content = TOO_SHORT_CONTENT => result.error.args = <<18, 104>>
    /\ (GoodHeader /\ built.extension_data = <<>>) =>
         /\ Len(Decoded) = 104
         /\ result.ok
         /\ Len(result.cert.signature) = 64

C1_Witness ==
  /\ pc = "parsed"
  /\ built.source = "short" /\ built.size = 103 /\ built.version = 1
  /\ result.error.args = <<103, 104>>

\* C2: a certificate long enough is parsed only when its version byte is 1;
\* every other version byte fails with the 'only supports version 1' error that
\* names it, and nothing is parsed out of it.
C2_VersionBoundary ==
  Parsed =>
    /\ LET decoded == Decoded
       IN  (Len(decoded) >= 104 /\ decoded[1] # 1) =>
             /\ result = Failure(Error("Ed25519 certificate is version %i. Parser presently only supports version 1.",
                                       <<decoded[1]>>))
             /\ result.cert = NoCertificate
    /\ (FromCertificate /\ built.version # 1) =>
         ~result.ok /\ result.error.args = <<built.version>>
    /\ (GoodHeader /\ built.extension_data = <<>>) =>
         result.ok /\ result.cert.version = 1
    /\ result.ok => Decoded[1] = 1

C2_Witness ==
  /\ pc = "parsed"
  /\ FromCertificate /\ built.version = 2 /\ built.cert_type = 4 /\ built.extension_data = <<>>
  /\ result.error = VersionError(2)

C4_UnusedExtensionData ==
  (Parsed /\ GoodHeader /\ ExactButLast(built.extension_data)
     /\ Len(LastExtension) >= 4
     /\ Len(LastExtension) >= 4 + Declared(LastExtension)
     /\ (LastExtension[3] = 4 => Declared(LastExtension) = 32)) =>
    LET k == Len(LastExtension) - 4 - Declared(LastExtension)
    IN  /\ k > 0 =>
             result = Failure(Error("Ed25519 certificate had %i bytes of unused extension data", <<k>>))
        /\ k = 0 =>
             /\ result.ok
             /\ Len(result.cert.extensions) = Len(built.extension_data)
             /\ result.cert.signature = Repeat(1, 64)

C4_Witness ==
  /\ pc = "parsed"
  /\ GoodHeader /\ built.extension_data = <<EXTRA_DATA_EXTENSION>>
  /\ result.error = UnusedDataError(1)

\* C5 as stated: a single extension declaring 1 byte more than is supplied
\* fails citing '1 bytes of unused extension data'.
C5_AsStated ==
  (Parsed /\ GoodHeader /\ Len(built.extension_data) = 1
     /\ Len(LastExtension) >= 4
     /\ Declared(LastExtension) = Len(LastExtension) - 4 + 1) =>
    result.error = UnusedDataError(1)

\* C5, amended: a single extension followed by 1 byte more than it declares
\* (declaring 32 bytes if it is a signing key) fails citing '1 bytes of unused
\* extension data'; one declaring 1 byte more than is supplied fails as
\* truncated, naming the declared and the supplied length.
C5_SurplusByte ==
  (Parsed /\ GoodHeader /\ Len(built.extension_data) = 1 /\ Len(LastExtension) >= 4) =>
    LET declared == Declared(LastExtension)
        supplied == Len(LastExtension) - 4
    IN  /\ (supplied = declared + 1 /\ (LastExtension[3] = 4 => declared = 32)) =>
             /\ ~result.ok
             /\ result.error.msg = "Ed25519 certificate had %i bytes of unused extension data"
             /\ result.error.args = <<1>>
        /\ declared = supplied + 1 =>
             /\ ~result.ok
             /\ result.error.msg = "Ed25519 extension is truncated. It should have %i bytes of data but there's only %i."
             /\ result.error.args = <<declared, supplied>>

C5_Witness ==
  /\ pc = "parsed"
  /\ GoodHeader /\ built.extension_data = <<Extension(32, 4, 0, 33)>>
  /\ result.error = UnusedDataError(1)

\* C6: an extension with fewer than 4 bytes left for its header fails as
\* 'missing header field data'; one declaring more data than is left before
\* the signature fails naming the declared length and what is left (20480 and
\* 2 in the test), the 64 bytes of the signature never being counted.
C6_TruncatedExtension ==
  (Parsed /\ GoodHeader /\ ExactButLast(built.extension_data)) =>
    /\ Len(LastExtension) < 4 =>
         result = Failure(Error("Ed25519 extension is missing header field data", <<>>))
    /\ (Len(LastExtension) >= 4 /\ Declared(LastExtension) > Len(LastExtension) - 4) =>
         /\ result = Failure(Error("Ed25519 extension is truncated. It should have %i bytes of data but there's only %i.",
                                   <<Declared(LastExtension), Len(LastExtension) - 4>>))
         /\ result.error.args[2] <= Len(Decoded) - 104

C6_Witness ==
  /\ pc = "parsed"
  /\ GoodHeader /\ built.extension_data = <<TRUNCATED_EXTENSION>>
  /\ result.error = TruncatedError(20480, 2)

\* C7: a HAS_SIGNING_KEY extension whose data is all there but is not 32 bytes
\* long fails naming its size; one of 32 bytes is accepted and its data is
\* exposed as it was encoded.
C7_SigningKeySize ==
  (Parsed /\ GoodHeader /\ ExactButLast(built.extension_data)
     /\ Len(LastExtension) >= 4 /\ LastExtension[3] = 4
     /\ Declared(LastExtension) <= Len(LastExtension) - 4) =>
    /\ Declared(LastExtension) # 32 =>
         result = Failure(Error("Ed25519 HAS_SIGNING_KEY extension must be 32 bytes, but was %i.",
                                <<Declared(LastExtension)>>))
    /\ Exact(LastExtension) =>
         /\ result.ok
         /\ LET e == result.cert.extensions[Len(built.extension_data)]
            IN  /\ e.type = HAS_SIGNING_KEY
                /\ Len(e.data) = 32
                /\ e.data = SliceFrom(LastExtension, 4)

C7_Witness ==
  /\ pc = "parsed"
  /\ GoodHeader /\ built.extension_data = <<TRUNCATED_SIGNING_KEY_EXTENSION>>
  /\ result.error = SigningKeySizeError(2)

\* the extensions of test_basic_parsing, parsed
BASIC_EXTENSIONS ==
  << Ed25519Extension(HAS_SIGNING_KEY, <<"AFFECTS_VALIDATION", "UNKNOWN">>, 7, Repeat(17, 32)),
     Ed25519Extension(5, <<"UNKNOWN">>, 4, <<>>) >>

\* whether bit b of a byte is set
Bit(byte, b) == (byte \div (2 ^ b)) % 2 = 1

\* C18: the flags of every parsed extension hold AFFECTS_VALIDATION exactly
\* when bit 0 of its flag byte is set, followed by UNKNOWN, once, exactly when
\* another bit is set, and flag_int is the flag byte; the extensions are
\* exposed in the order they are encoded in (flag byte 7 and then 4 in
\* test_basic_parsing).
C18_ExtensionFlags ==
  Parsed =>
    /\ \A i \in 1..Len(result.cert.extensions) :
         LET e == result.cert.extensions[i]
         IN  e.flags = (IF Bit(e.flag_int, 0) THEN <<"AFFECTS_VALIDATION">> ELSE <<>>)
                         \o (IF \E b \in 1..7 : Bit(e.flag_int, b) THEN <<"UNKNOWN">> ELSE <<>>)
    /\ (GoodHeader /\ \A i \in 1..Len(built.extension_data) : Exact(built.extension_data[i])) =>
         /\ result.ok
         /\ Len(result.cert.extensions) = Len(built.extension_data)
         /\ \A i \in 1..Len(built.extension_data) :
              /\ result.cert.extensions[i].type = built.extension_data[i][3]
              /\ result.cert.extensions[i].flag_int = built.extension_data[i][4]
              /\ result.cert.extensions[i].data = SliceFrom(built.extension_data[i], 4)
    /\ (GoodHeader
          /\ built.extension_data = <<BASIC_SIGNING_KEY_EXTENSION, BASIC_UNKNOWN_EXTENSION>>) =>
         result.cert.extensions = BASIC_EXTENSIONS
    /\ (GoodHeader /\ built.extension_data = <<Extension(0, 5, 0, 0)>>) =>
         result.cert.extensions[1].flags = <<>>

C18_Witness ==
  /\ pc = "parsed" /\ result.ok
  /\ built.extension_data = <<Extension(0, 5, 129, 0)>>
  /\ result.cert.extensions[1].flag_int = 129
  /\ result.cert.extensions[1].flags = <<"AFFECTS_VALIDATION", "UNKNOWN">>

\* C19: the expiration of a parsed certificate is, in seconds, 3600 times the
\* big-endian integer of bytes 2..5 of the decoded certificate: the epoch for
\* the four zero bytes of certificate(), 2015-08-28 17:00 for the certificate
\* of test_with_real_cert.
C19_Expiration ==
  (Parsed /\ result.ok) =>
    /\ LET decoded == Decoded
       IN  result.cert.expiration
             = 3600 * (decoded[3] * 16777216 + decoded[4] * 65536 + decoded[5] * 256 + decoded[6])
    /\ FromCertificate => result.cert.expiration = 0
    /\ content = ED25519_CERT => result.cert.expiration = 1440781200

C19_Witness ==
  /\ pc = "parsed" /\ result.ok
  /\ content = ED25519_CERT
  /\ result.cert.expiration = 400217 * 3600
  /\ Len(result.cert.extensions) = 1

\* C24: the checks are applied in the stated order and the earliest violated
\* step is the one reported: a text that is no base64 fails as such, a
\* decoding shorter than 104 bytes fails with the length error whatever its
\* version byte, a version other than 1 fails with the version error whatever
\* the type and the extensions (version 2 with type 0 too), and a reserved
\* type fails with the type error whatever the extensions.
C24_EarliestStepFails ==
  Parsed =>
    /\ built.source = "text" /\ ~b64decode(content).ok =>
         result = Failure(Base64Error(b64decode(content).cause))
    /\ built.source = "short" => result = Failure(TooShortError(built.size))
    /\ FromCertificate /\ built.version # 1 => result = Failure(VersionError(built.version))
    /\ FromCertificate /\ built.version = 1 /\ built.cert_type \in {0, 7} =>
         result = Failure(CertTypeError(built.cert_type))

\* certificate(2, 0) with an extension that is truncated as well
C24_Witness ==
  /\ Parsed
  /\ FromCertificate
  /\ built.version = 2
  /\ built.cert_type = 0
  /\ built.extension_data = <<TRUNCATED_EXTENSION>>
  /\ result.error = VersionError(2)

(***************************************************************************)
(* Properties of Certificate.validate.                                     *)
(***************************************************************************)
Validated == pc = "validated"

\* the certificate's extensions of type HAS_SIGNING_KEY, in order
SigningKeyExtensions ==
  SelectSeq(result.cert.extensions, LAMBDA extension : extension.type = 4)

ForgedOrCorrupt ==
  "Ed25519KeyCertificate signing key is invalid (Signature was forged or corrupt)"

\* C8: the signature is checked with the descriptor's master key when there is
\* one, else with the key of the embedded HAS_SIGNING_KEY extension when there
\* is one, else with the certificate's own key, and the outcome is the
\* primitive's answer for that key.
C8_KeyPriority ==
  (Validated /\ target.nacl) =>
    LET expected ==
          IF target.master_key # NoKey THEN target.master_key
          ELSE IF SigningKeyExtensions # <<>> THEN SigningKeyExtensions[1].data
          ELSE result.cert.key
    IN  /\ validation.key = expected
        /\ validation.outcome = "ok" <=> expected \in target.accepted

C8_Witness ==
  /\ Validated /\ target.nacl
  /\ target.master_key = NoKey
  /\ built.extension_data = <<BASIC_SIGNING_KEY_EXTENSION, BASIC_UNKNOWN_EXTENSION>>
  /\ target.accepted = {Repeat(17, 32)}
  /\ validation = [outcome |-> "ok", key |-> Repeat(17, 32)]

\* C9: validation succeeds only after the primitive accepted the signature; a
\* signature the primitive rejects fails as forged or corrupt, and without the
\* primitive the outcome is 'capability unavailable'.
C9_NeverInferredSuccess ==
  Validated =>
    /\ validation.outcome \in {"ok", ForgedOrCorrupt, "capability unavailable"}
    /\ validation.outcome = "ok" =>
         target.nacl /\ validation.key # NoKey /\ validation.key \in target.accepted
    /\ ~target.nacl => validation.outcome = "capability unavailable"
    /\ (target.nacl /\ target.accepted = {}) => validation.outcome = ForgedOrCorrupt
    /\ validation.outcome = ForgedOrCorrupt => validation.key \notin target.accepted

C9_Witness ==
  /\ Validated /\ target.nacl
  /\ FromCertificate /\ built.version = 1 /\ built.cert_type = 4 /\ built.extension_data = <<>>
  /\ target.master_key = Repeat(34, 32)
  /\ target.accepted = {}
  /\ validation.outcome = ForgedOrCorrupt

Opened == pc = "opened"

\* C27 as stated: once the descriptor is read, no parsed field of the
\* certificate or of the descriptor changes any more.
C27_AsStated ==
  [][Opened => result' = result /\ content' = content /\ target' = target]_vars

\* C27: Certificate.validate, whatever its outcome, leaves the certificate
\* (its parsed fields and its encoded text) and the target descriptor as they
\* were and records the outcome only.  Between the descriptor's construction
\* and its validation the one change made to it is the caller's clearing of
\* its master key, which leaves its other fields alone.
C27_ValidateFrame ==
  [][Opened =>
       /\ result' = result /\ content' = content
       /\ pc' = "validated" =>
            /\ target' = target
            /\ validation' = validate(result.cert, target, target.nacl)
       /\ pc' = "opened" =>
            /\ validation' = validation
            /\ target'.master_key = NoKey
            /\ target' = [target EXCEPT !.master_key = NoKey]]_vars

\* a validation that fails under the descriptor's own master key
C27_Witness ==
  /\ Validated /\ target.nacl /\ result.ok
  /\ target.master_key = Repeat(3, 32)
  /\ target.accepted = {Repeat(17, 32)}
  /\ validation = [outcome |-> ForgedOrCorrupt, key |-> Repeat(3, 32)]

(***************************************************************************)
(* Properties of document assembly.                                        *)
(***************************************************************************)
BothRan == assembled.strict.ran /\ assembled.permissive.ran

\* C10: when strict parsing of a document succeeds, permissive parsing of it
\* succeeds too and gives the same lines, the same fields and the same
\* unrecognized lines.
C10_MonotonicStrictness ==
  (BothRan /\ assembled.strict.ok) =>
    /\ assembled.permissive.ok
    /\ assembled.permissive.doc.lines = assembled.strict.doc.lines
    /\ assembled.permissive.doc.fields = assembled.strict.doc.fields
    /\ assembled.permissive.doc.unrecognized = assembled.strict.doc.unrecognized

C10_Witness ==
  /\ BothRan /\ assembled.strict.ok
  /\ Len(assembled.strict.doc.unrecognized) = 2
  /\ assembled.strict.doc.fields["v"].set

\* the keywords of the keyword lines of a text
KeywordsOf(raw) ==
  {raw[i].keyword : i \in {j \in 1..Len(raw) : raw[j].kind = "line"}}

\* the exactly-one keywords of a dialect
Mandatory(dialect) ==
  {Schema(dialect)[i].keyword :
     i \in {j \in 1..Len(Schema(dialect)) : Schema(dialect)[j].cardinality = "exactly-one"}}

\* the elements of a sequence, and whether none is repeated
Range(seq) == {seq[i] : i \in 1..Len(seq)}

NoRepeat(seq) == Len(seq) = Cardinality(Range(seq))

\* C11: a document lacking exactly-one keywords of its dialect never parses
\* strictly; when strict assembly reaches the end of the lines it fails with
\* one SchemaViolationError naming every missing keyword once, and permissive
\* assembly of the same text succeeds with exactly those exactly-one fields
\* unset.  The mandatory keywords mocking.py is told to exclude are the ones
\* named.
C11_MissingMandatory ==
  BothRan =>
    LET missing    == Mandatory(document.dialect) \ KeywordsOf(document.content)
        strict     == assembled.strict
        permissive == assembled.permissive
    IN  /\ missing # {} => ~strict.ok
        /\ (~strict.ok /\ strict.error.reason = "missing") =>
             /\ strict.error.kind = "SchemaViolationError"
             /\ Range(strict.error.keywords) = missing
             /\ NoRepeat(strict.error.keywords)
             /\ permissive.ok
             /\ \A k \in Mandatory(document.dialect) :
                  permissive.doc.fields[k].set <=> k \notin missing
        /\ (document.attr = <<>> /\ document.exclude # {}
              /\ document.content = Content(document.dialect, <<>>, document.exclude)) =>
             /\ strict.error.reason = "missing"
             /\ Range(strict.error.keywords) = document.exclude

C11_Witness ==
  /\ BothRan
  /\ document.dialect = "router-status-entry-v3"
  /\ document.exclude = {"r", "s"}
  /\ assembled.strict.error = SchemaViolationError(<<"r", "s">>, "missing")
  /\ assembled.permissive.ok
  /\ ~assembled.permissive.doc.fields["r"].set
  /\ ~assembled.permissive.doc.fields["s"].set
  /\ assembled.permissive.doc.fields["v"].set

(***************************************************************************)
(* Properties of network status documents.                                 *)
(***************************************************************************)
\* the authorities the document was built with, the default one of a vote
\* included
GivenAuthorities ==
  IF IsVoteAttr(document.attr) /\ document.authorities.none THEN <<Arguments(<<>>, {})>>
  ELSE document.authorities.entries

\* nothing but vote-digest was left out of the document
OnlyVoteDigestExcluded ==
  /\ document.exclude = {}
  /\ \A i \in 1..Len(GivenAuthorities) : GivenAuthorities[i].exclude \subseteq {"vote-digest"}
  /\ \A i \in 1..Len(document.routers) : document.routers[i].exclude = {}

\* C12 as stated: a vote without the vote-digest keyword fails strict parsing
\* with an error naming vote-digest, and parses permissively.
C12_AsStated ==
  (BothRan /\ IsVoteAttr(document.attr) /\ OnlyVoteDigestExcluded
     /\ "vote-digest" \notin KeywordsOf(document.content)) =>
    /\ ~assembled.strict.ok
    /\ "vote-digest" \in Range(assembled.strict.error.keywords)
    /\ assembled.permissive.ok

\* C12, amended: vote-digest is mandatory in the directory authority entries
\* of a consensus.  A consensus with an entry lacking it fails strict parsing
\* with an error naming vote-digest, and parses permissively with the field
\* unset in that entry; the entries of a vote are built without vote-digest
\* and the vote parses strictly.
C12_VoteDigest ==
  (BothRan /\ OnlyVoteDigestExcluded) =>
    LET strict     == assembled.strict
        permissive == assembled.permissive
        lacking    == {i \in 1..Len(GivenAuthorities) :
                         "vote-digest" \in GivenAuthorities[i].exclude}
    IN  /\ (~IsVoteAttr(document.attr) /\ lacking # {}) =>
             /\ strict = Rejected(SchemaViolationError(<<"vote-digest">>, "missing"))
             /\ permissive.ok
             /\ \A i \in 1..Len(GivenAuthorities) :
                  permissive.doc.authorities[i].fields["vote-digest"].set <=> i \notin lacking
        /\ (~IsVoteAttr(document.attr) /\ lacking = {}) =>
             /\ strict.ok
             /\ \A i \in 1..Len(GivenAuthorities) :
                  strict.doc.authorities[i].fields["vote-digest"].strs
                    = <<"0B6D1E9A300B895AA2D0B427F92917B6995C3C1C">>
        /\ IsVoteAttr(document.attr) =>
             /\ "vote-digest" \notin KeywordsOf(document.content)
             /\ strict.ok
             /\ \A i \in 1..Len(GivenAuthorities) :
                  /\ ~strict.doc.authorities[i].fields["vote-digest"].set
                  /\ strict.doc.authorities[i].key_certificate.fields["fingerprint"].set

C12_Witness ==
  /\ BothRan
  /\ ~IsVoteAttr(document.attr) /\ document.exclude = {}
  /\ document.authorities = Authorities(<<Arguments(<<>>, {"vote-digest"})>>)
  /\ assembled.strict.error = SchemaViolationError(<<"vote-digest">>, "missing")
  /\ assembled.permissive.ok
  /\ ~assembled.permissive.doc.authorities[1].fields["vote-digest"].set
  /\ assembled.permissive.doc.authorities[1].fields["contact"].set

\* the keywords of the schemas of a network status document
KnownKeywords ==
  SchemaKeywords(NetworkStatusDocumentV3Schema(TRUE)) \cup SchemaKeywords(DirectoryAuthoritySchema(TRUE))
    \cup SchemaKeywords(KeyCertificateSchema) \cup SchemaKeywords(RouterStatusEntryV3Schema)

\* the text without its keyword lines outside the schemas
WithoutUnknown(raw) ==
  SelectSeq(raw, LAMBDA l : l.kind # "line" \/ l.keyword \in KnownKeywords)

\* the lines of keywords outside the schemas among `lines`
UnknownAmong(lines) == SelectSeq(lines, LAMBDA l : l.keyword \notin KnownKeywords)

RECURSIVE Total(_)
Total(counts) == IF counts = <<>> THEN 0 ELSE Head(counts) + Total(Tail(counts))

\* the unrecognized lines of a document and of its sections
CollectedBy(doc) ==
  Len(doc.unrecognized)
    + Total([i \in 1..Len(doc.authorities) |-> Len(doc.authorities[i].unrecognized)])
    + Total([i \in 1..Len(doc.routers) |-> Len(doc.routers[i].unrecognized)])

Records == document.records

\* what parsing the i-th record alone gives
Alone(i, strict) == parse_one(RecordText(Records[i]), document.dialect, strict)

\* the number of lines of the first n records
LinesOf(n) == Total([i \in 1..n |-> Len(RecordText(Records[i]))])

\* C14: from a stream of N well-formed records the reader yields the document
\* of the first record, then of the second, and so on, each assembled from
\* the lines of its record alone, the cursor staying right after the last
\* document yielded; the pull after the N-th ends the sequence with no error,
\* N documents yielded.
C14_YieldsEveryDocumentInOrder ==
  (pc = "stream" /\ \A i \in 1..Len(Records) : Records[i] \in WellFormedRecords) =>
    /\ Len(reader.yielded) <= Len(Records)
    /\ \A i \in 1..Len(reader.yielded) :
         /\ reader.yielded[i] = Alone(i, reader.strict).doc
         /\ reader.yielded[i].lines = Lex(RecordText(Records[i]), <<>>).lines
         /\ reader.yielded[i].fields["r"].strs[1] = "caerSidi"
         /\ reader.yielded[i].fields["s"].strs = <<"Fast", "Named", "Running", "Stable", "Valid">>
         /\ reader.yielded[i].fields["v"].set <=> InAttr(Records[i].attr, "v")
         /\ Len(reader.yielded[i].unrecognized) = 1 <=> InAttr(Records[i].attr, "zz")
    /\ reader.error = NoProblem
    /\ ~reader.ended => reader.cursor = LinesOf(Len(reader.yielded)) + 1
    /\ reader.ended => Len(reader.yielded) = Len(Records)

C14_Witness ==
  /\ pc = "stream" /\ reader.strict /\ reader.ended
  /\ Len(Records) = MaxRecords
  /\ \A i \in 1..Len(Records) : Records[i] \in WellFormedRecords
  /\ Records[1] # Records[2]
  /\ Len(reader.yielded) = MaxRecords
  /\ reader.yielded[1] # reader.yielded[2]

\* the records a strict parse rejects
Malformed == {i \in 1..Len(Records) : ~Alone(i, TRUE).ok}

FirstMalformed == CHOOSE k \in Malformed : \A j \in Malformed : k <= j

\* the documents of the records a permissive parse accepts, in order
Tolerated ==
  LET accepted == SelectSeq([i \in 1..Len(Records) |-> Alone(i, FALSE)], LAMBDA o : o.ok)
  IN  [i \in 1..Len(accepted) |-> accepted[i].doc]

\* C15: with a malformed record at position k (the first one), a strict reader
\* yields the documents of records 1..k-1 and nothing more: the pull that
\* reaches record k ends the sequence with the error of that record.  A
\* permissive reader never has an error: it yields, in order, the documents of
\* the records that assemble permissively, every well-formed record among
\* them, passing over a record whose block is never closed.
C15_MalformedDocument ==
  (pc = "stream" /\ Malformed # {}) =>
    /\ { Record(<<>>, {"s"}, <<>>) } \subseteq Range(Records) =>
         \E i \in Malformed : Alone(i, TRUE).error = SchemaViolationError(<<"s">>, "missing")
    /\ reader.strict =>
         /\ Len(reader.yielded) < FirstMalformed
         /\ \A i \in 1..Len(reader.yielded) : reader.yielded[i] = Alone(i, TRUE).doc
         /\ reader.ended =>
              /\ Len(reader.yielded) = FirstMalformed - 1
              /\ reader.error = Alone(FirstMalformed, TRUE).error
              /\ reader.error # NoProblem
         /\ ~reader.ended => reader.error = NoProblem
    /\ ~reader.strict =>
         /\ reader.error = NoProblem
         /\ Len(reader.yielded) <= Len(Tolerated)
         /\ \A i \in 1..Len(reader.yielded) : reader.yielded[i] = Tolerated[i]
         /\ reader.ended => reader.yielded = Tolerated
         /\ \A i \in 1..Len(Records) :
              Alone(i, TRUE).ok =>
                \E j \in 1..Len(Tolerated) : Tolerated[j] = Alone(i, TRUE).doc
         /\ Len(Tolerated)
              = Cardinality({i \in 1..Len(Records) : Records[i].more = <<>>})

C15_Witness ==
  /\ pc = "stream" /\ ~reader.strict /\ reader.ended
  /\ Len(Records) = 3
  /\ Records[1] \in WellFormedRecords
  /\ Records[2].more # <<>>
  /\ Records[3] = Record(<< <<"zz", Text(<<"unrecognized">>)>> >>, {}, <<>>)
  /\ Len(reader.yielded) = 2
  /\ reader.yielded[2].unrecognized # <<>>

KnownFlags ==
  {"Authority", "BadExit", "Exit", "Fast", "Guard", "HSDir", "Named", "Running", "Stable",
   "Unnamed", "V2Dir", "Valid"}

\* the text with the flags outside the enum taken off its 's' lines
WithKnownFlagsOnly(raw) ==
  [i \in 1..Len(raw) |->
     IF raw[i].kind = "line" /\ raw[i].keyword = "s"
     THEN [raw[i] EXCEPT !.args = SelectSeq(@, LAMBDA flag : flag \in KnownFlags)]
     ELSE raw[i]]

\* the flags of the first 's' line of the text
FirstFlags(raw) == raw[FirstOf(raw, "s")].args

\* C20: a flag outside the known-flag enum never decides whether a router
\* status entry parses, strictly or permissively: the outcome is that of the
\* text without it; and the entry's flags are the tokens of its 's' line as
\* they are, the unknown ones at their place ('Fast Ninja' gives Fast, Ninja).
C20_OpenFlags ==
  (BothRan /\ document.dialect = "router-status-entry-v3") =>
    /\ \A strict \in BOOLEAN :
         LET outcome == IF strict THEN assembled.strict ELSE assembled.permissive
             without == parse_one(WithKnownFlagsOnly(document.content), document.dialect, strict)
         IN  /\ outcome.ok = without.ok
             /\ outcome.error = without.error
             /\ (outcome.ok /\ "s" \in KeywordsOf(document.content)) =>
                  outcome.doc.fields["s"].strs = FirstFlags(document.content)
             /\ outcome.ok =>
                  \A i \in 1..Len(outcome.doc.unrecognized) :
                    outcome.doc.unrecognized[i].keyword = "s" =>
                      outcome.doc.fields["s"].set
    /\ (document.attr = << <<"s", Text(<<"Fast", "Ninja">>)>> >> /\ document.exclude = {}
          /\ document.content = Content(document.dialect, document.attr, {})) =>
         /\ assembled.strict.ok
         /\ assembled.strict.doc.fields["s"].strs = <<"Fast", "Ninja">>
         /\ assembled.permissive.doc.fields["s"].strs = <<"Fast", "Ninja">>
         /\ assembled.strict.doc.unrecognized = <<>>
    /\ (document.attr = <<>> /\ document.exclude = {}
          /\ document.content = Content(document.dialect, <<>>, {})) =>
         /\ assembled.strict.ok
         /\ Range(assembled.strict.doc.fields["s"].strs) \subseteq KnownFlags
         /\ Len(assembled.strict.doc.fields["s"].strs) = 5

C20_Witness ==
  /\ BothRan /\ document.dialect = "router-status-entry-v3"
  /\ document.attr = << <<"s", Text(<<"Fast", "Ninja">>)>> >> /\ document.exclude = {}
  /\ assembled.strict.ok /\ assembled.permissive.ok
  /\ assembled.strict.doc.fields["s"].strs[2] = "Ninja"
  /\ "Ninja" \notin KnownFlags

(***************************************************************************)
(* Properties of stem.connection.authenticate.                             *)
(***************************************************************************)
Authenticated == pc = "authenticated"

\* an advertised method's authenticate_* call returns
SomeCallReturns ==
  \E m \in Callable(auth.auth_methods) : auth.mocks[m] = "None"

\* C21: for every set of advertised methods and every documented outcome of
\* the authenticate_* calls, authenticate returns or raises an
\* AuthenticationFailure (or a subclass), never another exception; it returns
\* if the call of an advertised method returns, and raises if every advertised
\* method fails or none can be used.  When it has to fetch the PROTOCOLINFO
\* response itself, a failure to fetch it is raised as an AuthenticationFailure
\* too.
C21_SuccessOrAuthenticationFailure ==
  Authenticated =>
    /\ auth.raised \in {"None"} \cup AuthenticationFailures
    /\ auth.protocolinfo \in {"given", "returned"} =>
         (auth.raised = "None" <=> SomeCallReturns)
    /\ auth.protocolinfo \in {"ProtocolError", "SocketError"} => auth.raised # "None"

\* tor advertises NONE and a method stem does not know, and authenticate_none
\* raises a ControllerError, which is no AuthenticationFailure
C21_Witness ==
  /\ Authenticated
  /\ auth.auth_methods = {"NONE", "UNKNOWN"}
  /\ auth.mocks.NONE = "ControllerError"
  /\ auth.mocks.COOKIE = "None"
  /\ auth.raised = "AuthenticationFailure"

(***************************************************************************)
(* Properties of stem.interpretor.arguments.parse.                         *)
(***************************************************************************)
ArgumentsParsed == pc = "args"

\* an -i or --interface value whose address or port is not valid
BadInterface(arg) ==
  IF arg \in DOMAIN SplitAtColon
  THEN ~is_valid_ipv4_address(SplitAtColon[arg][1]) \/ ~is_valid_port(SplitAtColon[arg][2])
  ELSE ~is_valid_port(arg)

\* argv holds an invalid argument: an option that is not accepted (or lacks
\* its value), or an invalid -i/--interface value
InvalidArgument(argv) ==
  \/ getopt(argv, 1, <<>>).error
  \/ \E i \in 1..Len(getopt(argv, 1, <<>>).opts) :
       /\ getopt(argv, 1, <<>>).opts[i][1] \in {"-i", "--interface"}
       /\ BadInterface(getopt(argv, 1, <<>>).opts[i][2])

\* C22: parse raises ValueError, and no other exception, whenever argv holds
\* an invalid argument: an option outside the accepted set, or an
\* -i/--interface value whose address part is no valid IPv4 address or whose
\* port part is no valid port.
C22_ValueErrorOnInvalidArgument ==
  ArgumentsParsed /\ InvalidArgument(interp.argv) => interp.outcome.raised = "ValueError"

\* C23: parse returns DEFAULT_ARGS overridden only by the options given:
\* parse([]) is the defaults, '-i PORT' sets control_port and
\* user_provided_port only, '-i ADDRESS:PORT' sets control_address too, and
\* '-s PATH' sets control_socket and user_provided_socket only.
C23_DefaultsOverriddenByOptions ==
  ArgumentsParsed =>
    /\ interp.argv = <<>> => interp.outcome = Returned(DEFAULT_ARGS)
    /\ interp.argv \in {<<"-i", "1643">>, <<"--interface", "1643">>} =>
         interp.outcome = Returned([DEFAULT_ARGS EXCEPT !.control_port = 1643,
                                                        !.user_provided_port = TRUE])
    /\ interp.argv \in {<<"-i", "127.0.0.1:1643">>, <<"--interface", "127.0.0.1:1643">>} =>
         interp.outcome = Returned([DEFAULT_ARGS EXCEPT !.control_address = "127.0.0.1",
                                                        !.control_port = 1643,
                                                        !.user_provided_port = TRUE])
    /\ interp.argv \in {<<"-s", "/tmp/socket">>, <<"--socket", "/tmp/socket">>} =>
         interp.outcome = Returned([DEFAULT_ARGS EXCEPT !.control_socket = "/tmp/socket",
                                                        !.user_provided_socket = TRUE])

(***************************************************************************)
(* Properties of the sections of a network status document.                *)
(***************************************************************************)
\* the lines of the document as the lexer gives them
DocumentLines == Lex(document.content, <<>>).lines

\* the furthest section a line before the i-th has opened
SectionBefore(lines, i) ==
  LET ranks == {SectionRank(SectionOpening(lines[j].keyword)) :
                  j \in {k \in 1..(i - 1) : SectionOpening(lines[k].keyword) # ""}}
  IN  IF ranks = {} THEN 0 ELSE CHOOSE r \in ranks : \A q \in ranks : q <= r

\* the lines whose keyword opens a section that has passed
OutOfOrder(lines) ==
  {i \in 1..Len(lines) :
     /\ SectionOpening(lines[i].keyword) # ""
     /\ SectionRank(SectionOpening(lines[i].keyword)) < SectionBefore(lines, i)}

\* no argument of the builders adds a keyword that opens a section
OpensNoSection(attr) == \A i \in 1..Len(attr) : SectionOpening(attr[i][1]) = ""

CleanArguments ==
  /\ OpensNoSection(document.attr)
  /\ \A i \in 1..Len(document.authorities.entries) :
       OpensNoSection(document.authorities.entries[i].attr)
  /\ \A i \in 1..Len(document.routers) : OpensNoSection(document.routers[i].attr)

NothingExcluded ==
  /\ document.exclude = {}
  /\ \A i \in 1..Len(document.authorities.entries) :
       document.authorities.entries[i].exclude = {}
  /\ \A i \in 1..Len(document.routers) : document.routers[i].exclude = {}

\* the lines of the documents of a list, one after the other
LinesOfAll(docs) == Join([i \in 1..Len(docs) |-> docs[i].lines])

\* the authorities and the routers of a document are a stretch of its lines
\* with no section keyword before it and the footer after it
InSectionOrder(doc) ==
  LET inner == LinesOfAll(doc.authorities) \o LinesOfAll(doc.routers)
  IN  \E a \in 0..Len(doc.lines) :
        /\ a + Len(inner) <= Len(doc.lines)
        /\ SubSeq(doc.lines, a + 1, a + Len(inner)) = inner
        /\ \A i \in 1..a : SectionOpening(doc.lines[i].keyword) = ""
        /\ \A i \in 1..Len(doc.authorities) : doc.authorities[i].lines[1].keyword = "dir-source"
        /\ \A i \in 1..Len(doc.routers) : doc.routers[i].lines[1].keyword = "r"
        /\ a + Len(inner) < Len(doc.lines) =>
             SectionOpening(doc.lines[a + Len(inner) + 1].keyword) = "FOOTER"

\* C25: assembly moves through HEADER, AUTHORITIES, ROUTERS and FOOTER forwards
\* only.  A keyword that opens a section which has passed (an `r` after the
\* footer began, a `dir-source` after the first `r`) is an error of a strict
\* parse, and is set aside by a permissive one; any other keyword is accepted
\* in any section, and the documents the builders give without such a keyword
\* hold none out of order.
C25_SectionsOnlyForwards ==
  assembled.strict.ran /\ assembled.permissive.ran =>
    /\ OutOfOrder(DocumentLines) # {} =>
         /\ assembled.strict =
              Rejected(SchemaViolationError(
                <<DocumentLines[CHOOSE i \in OutOfOrder(DocumentLines) :
                                  \A j \in OutOfOrder(DocumentLines) : i <= j].keyword>>,
                "misordered"))
         /\ assembled.permissive.ok
         /\ \A i \in OutOfOrder(DocumentLines) :
              \E u \in 1..Len(assembled.permissive.doc.unrecognized) :
                assembled.permissive.doc.unrecognized[u] = DocumentLines[i]
    /\ assembled.strict.ok => InSectionOrder(assembled.strict.doc)
    /\ OutOfOrder(DocumentLines) = {} => InSectionOrder(assembled.permissive.doc)
    /\ CleanArguments => OutOfOrder(DocumentLines) = {}
    /\ CleanArguments /\ NothingExcluded => assembled.strict.ok

\* an authority that brings a directory-signature line, followed by a router
C25_Witness ==
  /\ assembled.strict.ran /\ assembled.permissive.ran
  /\ Len(document.authorities.entries) = 1
  /\ document.authorities.entries[1].attr = << <<"directory-signature", Text(<<"early">>)>> >>
  /\ Len(document.routers) = 1
  /\ assembled.strict.error = SchemaViolationError(<<"r">>, "misordered")
  /\ assembled.permissive.ok

(***************************************************************************)
(* Properties of the keyword-line lexer.                                   *)
(***************************************************************************)
\* a block is opened and the text ends without its END line
Unclosed(raw) ==
  \E i \in 1..Len(raw) :
    /\ raw[i].kind = "begin"
    /\ \A j \in (i + 1)..Len(raw) : ~(raw[j].kind = "end" /\ raw[j].tag = raw[i].tag)

\* the place of the j-th keyword line of a text
PlaceOfLine(raw, j) ==
  CHOOSE i \in 1..Len(raw) :
    /\ raw[i].kind = "line"
    /\ Cardinality({k \in 1..i : raw[k].kind = "line"}) = j

\* the block a keyword line at place i carries: the lines after a BEGIN line
\* that follows it immediately, decoded
BlockAfter(raw, i) ==
  IF i < Len(raw) /\ raw[i + 1].kind = "begin"
  THEN [tag |-> raw[i + 1].tag,
        bytes |-> b64decode(Join([k \in 1..Cardinality({d \in (i + 2)..Len(raw) :
                                       \A q \in (i + 2)..d : raw[q].kind = "data"}) |->
                                    raw[i + 1 + k].args])).bytes]
  ELSE NoBlock

\* the logical lines: one per keyword line, in the order of the text
LogicalLines(raw) ==
  [j \in 1..Cardinality({k \in 1..Len(raw) : raw[k].kind = "line"}) |->
     DescriptorLine(raw[PlaceOfLine(raw, j)].keyword, raw[PlaceOfLine(raw, j)].args,
                    BlockAfter(raw, PlaceOfLine(raw, j)))]

TasksBefore(n) ==
  SelectSeq([i \in 1..(n - 1) |-> i], LAMBDA i : i <= Len(tasks.given) /\ tasks.given[i] # NoTask)

\* the position the loop has dealt with up to and including
Reached == IF pc = "exited" THEN tasks.at ELSE tasks.at - 1

Pristine(task) == task = NoTask \/ (task.error = NoException /\ ~task.is_successful)

\* C28 as stated: every runner that raises has its error recorded, and the
\* process exits only with status 1 and only after a required task failed.
C28_AsStated ==
  /\ \A i \in 1..Len(tasks.ran) :
       LET task == tasks.given[tasks.ran[i]]
       IN  task.runner # "returns" => task.error # NoException /\ ~task.is_successful
  /\ pc = "exited" => tasks.exit = 1 /\ tasks.given[tasks.at].is_required
  /\ pc = "returned" => tasks.ran = TasksBefore(Len(tasks.given) + 1)

\* C28: the tasks are run in the order of the arguments and None is skipped.
\* A runner that returns leaves is_successful True and error None; a runner
\* that raises an Exception leaves the error recorded and is_successful
\* False, and the process then exits with status 1 before a later task is
\* run if the task is required, and goes on to the later tasks if not.  A
\* runner that raises SystemExit leaves error None and is_successful False
\* and ends the process with its own status, required or not.
C28_TasksInOrder ==
  /\ tasks.ran = TasksBefore(Reached + 1)
  /\ \A i \in 1..Len(tasks.given) :
       LET task == tasks.given[i]
       IN  IF i > Reached THEN Pristine(task)
           ELSE task # NoTask =>
                  /\ task.runner = "returns" => task.is_successful /\ task.error = NoException
                  /\ task.runner = "ValueError" => ~task.is_successful /\ task.error = "ValueError"
                  /\ IsSystemExit(task.runner) => ~task.is_successful /\ task.error = NoException
                  /\ i < Reached => task.runner = "returns" \/ (task.runner = "ValueError" /\ ~task.is_required)
  /\ pc = "exited" <=> tasks.exit # NotExited
  /\ pc = "exited" =>
       LET task == tasks.given[tasks.at]
       IN  /\ task # NoTask
           /\ IF IsSystemExit(task.runner) THEN tasks.exit = exit_status(task.runner)
              ELSE task.runner = "ValueError" /\ task.is_required /\ tasks.exit = 1
  /\ pc = "returned" => Reached = Len(tasks.given)

\* a failing task that is not required, then None, then a required task that
\* fails before the last task is run
C28_Witness ==
  /\ pc = "exited" /\ tasks.exit = 1
  /\ Len(tasks.given) = 3
  /\ tasks.given[1] = [runner |-> "ValueError", is_required |-> FALSE, error |-> "ValueError", is_successful |-> FALSE]
  /\ tasks.given[2] = [runner |-> "ValueError", is_required |-> TRUE, error |-> "ValueError", is_successful |-> FALSE]
  /\ tasks.given[3] = Task("returns", TRUE)
  /\ tasks.ran = <<1, 2>>

(***************************************************************************)
(* Properties of stem.manual.download_man_page.                            *)
(***************************************************************************)
TemporaryFiles == manual.files \cap Under(dirpath)

PreconditionsFail == (manual.path = "" /\ ~manual.file_handle) \/ ~manual.a2x_available

\* C29: when download_man_page has returned or raised, its temporary
\* directory and what was in it are gone, whichever step failed; a call that
\* fails the checks of its arguments or of a2x never makes the directory; a
\* call that passes them makes it and has it while it works.
C29_TemporaryDirectoryRemoved ==
  /\ pc \in {"returned", "raised"} => TemporaryFiles = {}
  /\ PreconditionsFail => TemporaryFiles = {} /\ pc \in {"download_man_page", "raised"}
  /\ pc \in {"downloading", "converting", "saving"} => dirpath \in manual.files /\ ~PreconditionsFail
  /\ pc = "raised" <=> manual.raised # NoException
  /\ pc = "returned" =>
       /\ manual.path # "" => manual.saved /\ manual.path \in manual.files
       /\ manual.file_handle => manual.written

\* the man page was copied to path, the copy to file_handle then failed
C29_Witness ==
  /\ pc = "raised" /\ manual.raised = "IOError"
  /\ manual.path = "/tmp/saved/tor.1" /\ manual.file_handle
  /\ manual.a2x_available /\ manual.urlopen = "page" /\ manual.a2x = "man page"
  /\ manual.copyfile = "copied" /\ manual.copyfileobj = "IOError"
  /\ manual.files = {"/tmp/saved/tor.1"}

(***************************************************************************)
(* Properties of stem.manual._get_categories.                              *)
(***************************************************************************)
\* the man page without its title lines, and the positions of its headers
ManPage == WithoutTitles(manual.content)

HeaderAt(i) == IsHeader(ManPage[i])

\* the position of the first header after position i, or one past the end
RECURSIVE NextHeader(_)
NextHeader(i) ==
  IF i >= Len(ManPage) THEN Len(ManPage) + 1
  ELSE IF HeaderAt(i + 1) THEN i + 1
  ELSE NextHeader(i + 1)

\* the lines between the header at i and the next header, the seven spaces
\* removed and the one empty line at the end dropped
BodyOf(i) ==
  LET body == [k \in 1..(NextHeader(i) - i - 1) |-> Unindented(replace(ManPage[i + k]))]
  IN  IF body # <<>> /\ body[Len(body)] = EmptyLine THEN SubSeq(body, 1, Len(body) - 1) ELSE body

\* C30: _get_categories raises for no list of lines and maps each header
\* (where a header is repeated, its last section) to the lines up to the next
\* header, with the seven spaces removed and the one empty line at the end of
\* the section dropped, the last section and a section of no lines included.
C30_EverySectionMapped ==
  pc = "categories" =>
    /\ manual.outcome.raised = NoException
    /\ DOMAIN manual.outcome.categories = {strip(ManPage[i]) : i \in {j \in 1..Len(ManPage) : HeaderAt(j)}}
    /\ \A i \in 1..Len(ManPage) :
         (HeaderAt(i) /\ \A j \in (i + 1)..Len(ManPage) : HeaderAt(j) => strip(ManPage[j]) # strip(ManPage[i]))
           => manual.outcome.categories[strip(ManPage[i])] = BodyOf(i)

====
